---------------------------- MODULE Spec2Model ----------------------------
(***************************************************************************)
(* A model of pypred: predicate ASTs, their evaluation under an            *)
(* EvalContext, the tiler, the peephole optimizer, the compare / contains  *)
(* rewriters, merge / refactor, CSE compaction and caching, and the        *)
(* PredicateSet / OptimizedPredicateSet front.                             *)
(*                                                                         *)
(* Conventions.  A Python string is the sequence of its code points, so    *)
(* that quoting, slicing and lexicographic order are computed and not      *)
(* assumed.  A Python value is a record tagged by its type in field t; an  *)
(* AST node is a record tagged by its class in field k.  The trees are     *)
(* values: the places where the source relies on object identity (shared   *)
(* Literals, the shared CachedNode, the pivot kept in Branch.expr) are     *)
(* modelled by the fields that identity carries (static flag, cache_id).   *)
(* Python 3 comparison protocol is modelled (reflected __eq__, __ne__      *)
(* derived from __eq__ unless a class defines it).                         *)
(***************************************************************************)
EXTENDS Integers, Sequences, FiniteSets, TLC

VARIABLES
    settings,      \* OptimizedPredicateSet.settings (None: refactor uses shallow())
    predicates,    \* OptimizedPredicateSet.predicates (None after finalize)
    ast,           \* OptimizedPredicateSet.ast, the compiled tree or None
    finalized,     \* OptimizedPredicateSet.finalized
    member,        \* the Predicate objects of the pool: predicate (text) and ast, None once cleared
    merge_order,   \* the list(self.predicates) handed to merge by the last compile_ast
    ret,           \* what the last call returned or raised
    threads,       \* concurrent evaluate calls: per thread its position and locals
    set_results,   \* OptimizedPredicateSet._results, a reference into heap or None
    heap,          \* the result lists allocated by evaluate calls
    probe          \* the input / output of the pure-function specifications

vars == <<settings, predicates, ast, finalized, member, merge_order, ret,
          threads, set_results, heap, probe>>

\* body(v), the value v being computed first and once: a statement's result
\* is bound to a name before the statements after it run
With(v, body(_)) == IF v = v THEN body(v) ELSE body(v)

-----------------------------------------------------------------------------
(* Python values *)

Undefined == [t |-> "Undefined"]
Empty == [t |-> "Empty"]
NoneV == [t |-> "NoneType"]
Num(n) == [t |-> "float", n |-> n]
Str(s) == [t |-> "str", s |-> s]
Bool(b) == [t |-> "bool", b |-> b]
List(l) == [t |-> "list", l |-> l]
SetV(e) == [t |-> "set", e |-> e]

IsSentinel(v) == v.t \in {"Undefined", "Empty"}

\* int(bool): True is 1, False is 0
NumOf(v) == IF v.t = "bool" THEN (IF v.b THEN 1 ELSE 0) ELSE v.n

IsNumeric(v) == v.t \in {"float", "bool"}

\* hasattr(other, "__len__")
HasLen(v) == v.t \in {"str", "list", "set"}

PyLen(v) ==
    CASE v.t = "str" -> Len(v.s)
      [] v.t = "list" -> Len(v.l)
      [] v.t = "set" -> Cardinality(v.e)
      [] OTHER -> 0

RECURSIVE StrLess(_, _)
\* str.__lt__: lexicographic order on code points
StrLess(a, b) ==
    IF b = <<>> THEN FALSE
    ELSE IF a = <<>> THEN TRUE
    ELSE IF Head(a) # Head(b) THEN Head(a) < Head(b)
    ELSE StrLess(Tail(a), Tail(b))

\* __eq__ as it would be if Empty compared equal to the sentinels only
TypeEq_sentinels_only(a, b) ==
    CASE a.t = "Undefined" ->
            IF IsSentinel(b) THEN "True" ELSE "False"
      [] a.t = "Empty" ->
            IF IsSentinel(b) THEN "True" ELSE "False"
      [] IsNumeric(a) ->
            IF IsNumeric(b)
            THEN (IF NumOf(a) = NumOf(b) THEN "True" ELSE "False")
            ELSE "NotImplemented"
      [] a.t = "str" ->
            IF b.t = "str" THEN (IF a.s = b.s THEN "True" ELSE "False")
            ELSE "NotImplemented"
      [] a.t = "NoneType" ->
            IF b.t = "NoneType" THEN "True" ELSE "NotImplemented"
      [] a.t = "list" ->
            IF b.t = "list" THEN (IF a.l = b.l THEN "True" ELSE "False")
            ELSE "NotImplemented"
      [] a.t = "set" ->
            IF b.t = "set" THEN (IF a.e = b.e THEN "True" ELSE "False")
            ELSE "NotImplemented"
      [] OTHER -> "NotImplemented"

\* type(a).__eq__(a, b): "True", "False" or "NotImplemented"
TypeEq(a, b) ==
    CASE a.t = "Undefined" ->
            IF IsSentinel(b) THEN "True" ELSE "False"
      [] a.t = "Empty" ->
            IF IsSentinel(b) THEN "True"
            ELSE IF ~HasLen(b) THEN "False"
            ELSE IF PyLen(b) = 0 THEN "True" ELSE "False"
      [] IsNumeric(a) ->
            IF IsNumeric(b)
            THEN (IF NumOf(a) = NumOf(b) THEN "True" ELSE "False")
            ELSE "NotImplemented"
      [] a.t = "str" ->
            IF b.t = "str" THEN (IF a.s = b.s THEN "True" ELSE "False")
            ELSE "NotImplemented"
      [] a.t = "NoneType" ->
            IF b.t = "NoneType" THEN "True" ELSE "NotImplemented"
      [] a.t = "list" ->
            IF b.t = "list" THEN (IF a.l = b.l THEN "True" ELSE "False")
            ELSE "NotImplemented"
      [] a.t = "set" ->
            IF b.t = "set" THEN (IF a.e = b.e THEN "True" ELSE "False")
            ELSE "NotImplemented"
      [] OTHER -> "NotImplemented"

\* a == b: the left operand's __eq__, then the reflected one, then identity
\* (two values of different types are never the same object)
PyEq(a, b) ==
    With(TypeEq(a, b), LAMBDA r :
        IF r # "NotImplemented" THEN r = "True"
        ELSE With(TypeEq(b, a), LAMBDA q :
                 IF q # "NotImplemented" THEN q = "True" ELSE FALSE))

\* type(a).__ne__(a, b): Undefined defines it; every other class inherits
\* the inversion of its __eq__
TypeNe(a, b) ==
    IF a.t = "Undefined"
    THEN (IF b.t = "Undefined" THEN "False" ELSE "True")
    ELSE With(TypeEq(a, b), LAMBDA r :
             CASE r = "True" -> "False"
               [] r = "False" -> "True"
               [] OTHER -> "NotImplemented")

\* a != b
PyNe(a, b) ==
    With(TypeNe(a, b), LAMBDA r :
        IF r # "NotImplemented" THEN r = "True"
        ELSE With(TypeNe(b, a), LAMBDA q :
                 IF q # "NotImplemented" THEN q = "True" ELSE TRUE))

\* bool(v)
PyTruthy(v) ==
    CASE v.t = "Undefined" -> FALSE
      [] v.t = "Empty" -> FALSE
      [] v.t = "NoneType" -> FALSE
      [] v.t = "bool" -> v.b
      [] v.t = "float" -> v.n # 0
      [] OTHER -> PyLen(v) > 0

RECURSIVE Orderable(_, _), PyLess(_, _)
\* Whether a < b, a <= b, ... is defined (Python 3 raises TypeError
\* otherwise): two numbers, two strings, two sets, or two lists whose first
\* differing elements are
Orderable(a, b) ==
    \/ IsNumeric(a) /\ IsNumeric(b)
    \/ a.t = "str" /\ b.t = "str"
    \/ a.t = "set" /\ b.t = "set"
    \/ /\ a.t = "list" /\ b.t = "list"
       /\ \/ a.l = <<>>
          \/ b.l = <<>>
          \/ IF PyEq(Head(a.l), Head(b.l)) THEN Orderable(List(Tail(a.l)), List(Tail(b.l)))
             ELSE Orderable(Head(a.l), Head(b.l))

\* a < b of two orderable values: numbers by value, strings and lists
\* lexicographically, sets by proper inclusion
PyLess(a, b) ==
    CASE a.t = "str" -> StrLess(a.s, b.s)
      [] a.t = "set" -> a.e \subseteq b.e /\ a.e # b.e
      [] a.t = "list" ->
            IF b.l = <<>> THEN FALSE
            ELSE IF a.l = <<>> THEN TRUE
            ELSE IF PyEq(Head(a.l), Head(b.l)) THEN PyLess(List(Tail(a.l)), List(Tail(b.l)))
            ELSE PyLess(Head(a.l), Head(b.l))
      [] OTHER -> NumOf(a) < NumOf(b)

\* a <= b of two orderable values; for sets it is inclusion, not the
\* negation of b < a
PyLessEq(a, b) == IF a.t = "set" THEN a.e \subseteq b.e ELSE ~PyLess(b, a)

\* hash(v): Undefined and Empty hash as None does; equal numbers hash alike
PyHash(v) ==
    CASE v.t \in {"Undefined", "Empty", "NoneType"} -> NoneV
      [] v.t = "bool" -> Num(NumOf(v))
      [] OTHER -> v

\* x in <set or frozenset>: same hash, then ==
InSet(x, e) == \E y \in e : PyHash(y) = PyHash(x) /\ PyEq(y, x)

\* x in <list>: == against every element
InList(x, l) == \E i \in 1..Len(l) : PyEq(l[i], x)

RECURSIVE IsPrefixAt(_, _, _)
IsPrefixAt(p, s, i) ==
    IF p = <<>> THEN TRUE
    ELSE IF i > Len(s) THEN FALSE
    ELSE s[i] = Head(p) /\ IsPrefixAt(Tail(p), s, i + 1)

\* x in <str>: substring test
InStr(x, s) == \E i \in 1..(Len(s) + 1) : IsPrefixAt(x, s, i)

-----------------------------------------------------------------------------
(* AST nodes (ast.py).  Node.position only feeds messages and is left out. *)

NoneNode == [k |-> "None"]
Literal(s) == [k |-> "Literal", value |-> Str(s), static |-> FALSE, static_val |-> NoneV]
Number(n) == [k |-> "Number", value |-> Num(n)]
Constant(v) == [k |-> "Constant", value |-> v]
UndefinedNode == [k |-> "Undefined"]
EmptyNode == [k |-> "Empty"]
Regex(s) == [k |-> "Regex", value |-> Str(s)]
FrozenSet(e) == [t |-> "frozenset", e |-> e]
LiteralSet(e) == [k |-> "LiteralSet", value |-> FrozenSet(e), static |-> FALSE, static_val |-> NoneV]
NegateOperator(l) == [k |-> "NegateOperator", left |-> l]
CompareOperator(op, l, r) == [k |-> "CompareOperator", type |-> op, left |-> l, right |-> r]
LogicalOperator(op, l, r) == [k |-> "LogicalOperator", type |-> op, left |-> l, right |-> r]
ContainsOperator(l, r) == [k |-> "ContainsOperator", left |-> l, right |-> r]
MatchOperator(l, r) == [k |-> "MatchOperator", left |-> l, right |-> r]
PushResult(p, l) == [k |-> "PushResult", pred |-> p, left |-> l]
Branch(e, l, r) == [k |-> "Branch", expr |-> e, left |-> l, right |-> r]
Both(l, r) == [k |-> "Both", left |-> l, right |-> r]
CachedNode(l, id) == [k |-> "CachedNode", expr |-> l, cache_id |-> id]

ConstTrue == Constant(Bool(TRUE))
ConstFalse == Constant(Bool(FALSE))

\* hasattr(node, "left"), hasattr(node, "right"), ...
HasLeft(n) == n.k \in {"NegateOperator", "CompareOperator", "LogicalOperator",
                       "ContainsOperator", "MatchOperator", "PushResult", "Branch", "Both"}
HasRight(n) == n.k \in {"CompareOperator", "LogicalOperator", "ContainsOperator",
                        "MatchOperator", "Branch", "Both"}
HasValue(n) == n.k \in {"Literal", "Number", "Constant", "Regex", "LiteralSet"}
HasType(n) == n.k \in {"CompareOperator", "LogicalOperator"}
HasFailureInfo(n) == n.k \in {"LogicalOperator", "NegateOperator", "CompareOperator",
                              "ContainsOperator", "MatchOperator", "PushResult",
                              "Branch", "Both", "CachedNode"}

\* bool(node), as in "if self.left": Undefined, Empty and LiteralSet define
\* __bool__, every other node object is true, None is false
NodeTruthy(n) ==
    CASE n.k \in {"None", "Undefined", "Empty"} -> FALSE
      [] n.k = "LiteralSet" -> Cardinality(n.value.e) > 0
      [] OTHER -> TRUE

OP_REVERSE(op) ==
    CASE op = ">=" -> "<="
      [] op = ">" -> "<"
      [] op = "<" -> ">"
      [] op = "<=" -> ">="
      [] op = "=" -> "="
      [] op = "!=" -> "!="
      [] op = "is" -> "is"

\* CompareOperator.reverse
reverse(n) == [n EXCEPT !.left = n.right, !.right = n.left, !.type = OP_REVERSE(n.type)]

-----------------------------------------------------------------------------
(* LiteralResolver (predicate.py).  Identifiers of the model hold no ".",  *)
(* so the nested lookup of resolve_identifier falls through; the resolver  *)
(* table is looked up by ContextResolve below.                             *)

Quote == 39
DblQuote == 34

IsQuoted(identifier) ==
    /\ identifier[1] = identifier[Len(identifier)]
    /\ identifier[1] \in {Quote, DblQuote}

\* identifier[1:-1]
Unquote(identifier) ==
    IF Len(identifier) < 2 THEN <<>> ELSE SubSeq(identifier, 2, Len(identifier) - 1)

static_resolve(identifier) ==
    IF IsQuoted(identifier) THEN Str(Unquote(identifier)) ELSE Undefined

resolve_identifier(document, identifier) ==
    IF IsQuoted(identifier) THEN Str(Unquote(identifier))
    ELSE IF identifier \in DOMAIN document THEN document[identifier]
    ELSE Undefined

\* Literal.static_resolve
LiteralStaticResolve(n) ==
    LET s == static_resolve(n.value.s) IN
    IF s.t = "Undefined" THEN n
    ELSE [n EXCEPT !.static = TRUE, !.static_val = s]

\* LiteralSet.static_resolve: the Literal items are resolved in place; the
\* set is static when every item is
LiteralSetStaticResolve(n) ==
    LET items == {IF i.k = "Literal" THEN LiteralStaticResolve(i) ELSE i : i \in n.value.e}
        static == \A i \in items : i.k = "Literal" => i.static
        vals == {IF i.k = "Literal" THEN i.static_val ELSE i.value :
                     i \in {j \in items : j.k # "Literal" \/ j.static}}
        m == [n EXCEPT !.value = FrozenSet(items)]
    IN  IF static THEN [m EXCEPT !.static = TRUE, !.static_val = SetV(vals)] ELSE m

-----------------------------------------------------------------------------
(* EvalContext and eval (ast.py) *)

\* EvalContext.__init__, with the results list that the set's evaluate /
\* analyze has just installed in self._results (sink)
\* resolvers are the callables set on ctx.pred with set_resolver (none unless
\* a specification installs them); calls is the history of the calls of
\* ctx.resolve_identifier, kept for the properties only
EvalContext(doc, analyze, sink) ==
    [doc |-> doc, literals |-> <<>>, reach |-> 0, failed |-> <<>>,
     cached_res |-> <<>>, cache_hits |-> 0, cache_misses |-> 0,
     analyze |-> analyze, _analyze |-> analyze,
     results |-> sink, exc |-> "", resolvers |-> <<>>, calls |-> <<>>]

\* EvalContext.resolve_identifier -> pred.resolve_identifier(doc, ident).  A
\* callable resolver is a clock: what it returns depends on how many
\* resolutions came before, so that two calls never agree
ContextResolve(ctx, ident) ==
    IF /\ ~IsQuoted(ident)
       /\ ident \notin DOMAIN ctx.doc
       /\ ident \in DOMAIN ctx.resolvers
    THEN Num(ctx.resolvers[ident].base + ctx.resolvers[ident].step * Len(ctx.calls))
    ELSE resolve_identifier(ctx.doc, ident)

\* Literal.eval as it would be without the context's cache of literals
LiteralEval_uncached(node, ctx) ==
    LET v == IF node.static THEN node.static_val ELSE ContextResolve(ctx, node.value.s)
    IN  [v |-> v,
         ctx |-> [ctx EXCEPT !.literals = (node.value.s :> v) @@ @,
                             !.calls = IF node.static THEN @ ELSE Append(@, node.value.s)]]

\* Literal.eval
LiteralEval(node, ctx) ==
    IF node.value.s \in DOMAIN ctx.literals
    THEN [v |-> ctx.literals[node.value.s], ctx |-> ctx]
    ELSE LET v == IF node.static THEN node.static_val
                  ELSE ContextResolve(ctx, node.value.s)
         IN  [v |-> v,
              ctx |-> [ctx EXCEPT !.literals = (node.value.s :> v) @@ @,
                                  !.calls = IF node.static THEN @
                                            ELSE Append(@, node.value.s)]]

NoSink == [isNone |-> TRUE, preds |-> <<>>]
NewSink == [isNone |-> FALSE, preds |-> <<>>]

\* __enter__ as it would be if it left tracing on
CtxEnter_tracing(ctx) == ctx

\* EvalContext.__enter__ / __exit__
CtxEnter(ctx) == [ctx EXCEPT !.analyze = FALSE]
CtxExit(ctx) == [ctx EXCEPT !.analyze = ctx._analyze]

Raise(ctx, e) == [ctx EXCEPT !.exc = e]
Fail(ctx, msg) == [ctx EXCEPT !.failed = Append(@, msg)]

\* OptimizedPredicateSet.push_match
push_match(ctx, match) ==
    IF ctx.results.isNone THEN Raise(ctx, "AttributeError")
    ELSE [ctx EXCEPT !.results.preds = Append(@, match)]

\* hasattr(left, "__contains__")
HasContains(v) == v.t \in {"str", "list", "set", "Undefined"}

\* right in left
PyIn(right, left) ==
    CASE left.t = "str" -> IF right.t = "str" THEN InStr(right.s, left.s) ELSE FALSE
      [] left.t = "list" -> InList(right, left.l)
      [] left.t = "set" -> InSet(right, left.e)
      [] OTHER -> FALSE

\* "x in <str>" with x not a string raises, and so does "x in <set>" with
\* x a list, which cannot be hashed (a set is looked up as a frozenset)
PyInRaises(right, left) ==
    \/ left.t = "str" /\ right.t # "str"
    \/ left.t = "set" /\ right.t = "list"

RECURSIVE Eval(_, _), EvalRaw(_, _), FailureInfoOf(_, _), EvalItems(_, _, _)

\* The @failure_info wrapper around eval
Eval(node, ctx) ==
    IF ctx.exc # "" THEN [v |-> NoneV, ctx |-> ctx]
    ELSE With(EvalRaw(node, ctx), LAMBDA r :
             IF /\ node.k \in {"LogicalOperator", "NegateOperator", "CompareOperator",
                                "ContainsOperator", "MatchOperator", "PushResult",
                                "Branch", "Both"}
                /\ r.ctx.exc = ""
                /\ ~PyTruthy(r.v)
                /\ r.ctx.analyze
             THEN [v |-> r.v, ctx |-> FailureInfoOf(node, r.ctx)]
             ELSE r)

\* LiteralSet.eval of a non-static set: resolve every item
EvalItems(items, acc, ctx) ==
    IF items = {} THEN [v |-> SetV(acc), ctx |-> ctx]
    ELSE LET i == CHOOSE j \in items : TRUE
             r == IF i.k = "Literal" THEN Eval(i, ctx) ELSE [v |-> i.value, ctx |-> ctx]
         IN  EvalItems(items \ {i}, acc \cup {r.v}, r.ctx)

\* <Class>.eval, the undecorated method
EvalRaw(node, ctx) ==
    CASE node.k = "Literal" -> LiteralEval(node, ctx)
      [] node.k \in {"Number", "Constant"} -> [v |-> node.value, ctx |-> ctx]
      [] node.k = "Regex" -> [v |-> [t |-> "re", s |-> node.value.s], ctx |-> ctx]
      [] node.k = "Undefined" -> [v |-> Undefined, ctx |-> ctx]
      [] node.k = "Empty" -> [v |-> Empty, ctx |-> ctx]
      [] node.k = "LiteralSet" ->
            IF node.static THEN [v |-> node.static_val, ctx |-> ctx]
            ELSE EvalItems(node.value.e, {}, ctx)
      [] node.k = "NegateOperator" ->
            LET l == Eval(node.left, ctx) IN [v |-> Bool(~PyTruthy(l.v)), ctx |-> l.ctx]
      [] node.k = "CompareOperator" ->
            LET l == Eval(node.left, ctx)
                r == Eval(node.right, l.ctx)
            IN  IF r.ctx.exc # "" THEN r
                ELSE IF node.type \in {"=", "is"} THEN [v |-> Bool(PyEq(l.v, r.v)), ctx |-> r.ctx]
                ELSE IF node.type = "!=" THEN [v |-> Bool(PyNe(l.v, r.v)), ctx |-> r.ctx]
                ELSE IF IsSentinel(l.v) THEN [v |-> Bool(FALSE), ctx |-> r.ctx]
                ELSE IF IsSentinel(r.v) THEN [v |-> Bool(FALSE), ctx |-> r.ctx]
                ELSE IF ~Orderable(l.v, r.v) THEN [v |-> NoneV, ctx |-> Raise(r.ctx, "TypeError")]
                ELSE [v |-> Bool(CASE node.type = ">=" -> PyLessEq(r.v, l.v)
                                   [] node.type = ">" -> PyLess(r.v, l.v)
                                   [] node.type = "<=" -> PyLessEq(l.v, r.v)
                                   [] node.type = "<" -> PyLess(l.v, r.v)),
                      ctx |-> r.ctx]
      [] node.k = "LogicalOperator" ->
            LET l == Eval(node.left, ctx) IN
            IF node.type = "and"
            THEN IF ~PyTruthy(l.v) THEN [v |-> Bool(FALSE), ctx |-> l.ctx]
                 ELSE LET r == Eval(node.right, l.ctx)
                      IN  [v |-> Bool(PyTruthy(r.v)), ctx |-> r.ctx]
            ELSE IF PyTruthy(l.v) THEN [v |-> Bool(TRUE), ctx |-> l.ctx]
                 ELSE LET r == Eval(node.right, l.ctx)
                      IN  [v |-> Bool(PyTruthy(r.v)), ctx |-> r.ctx]
      [] node.k = "ContainsOperator" ->
            LET l == Eval(node.left, ctx) IN
            IF l.ctx.exc # "" THEN l
            ELSE IF HasContains(l.v)
            THEN LET r == Eval(node.right, l.ctx) IN
                 IF r.ctx.exc # "" THEN r
                 ELSE IF PyInRaises(r.v, l.v) THEN [v |-> NoneV, ctx |-> Raise(r.ctx, "TypeError")]
                 ELSE [v |-> Bool(PyIn(r.v, l.v)), ctx |-> r.ctx]
            ELSE [v |-> Bool(FALSE), ctx |-> l.ctx]
      [] node.k = "MatchOperator" ->
            LET l == Eval(node.left, ctx) IN
            IF l.v.t # "str" THEN [v |-> Bool(FALSE), ctx |-> l.ctx]
            ELSE LET r == Eval(node.right, l.ctx)
                 IN  [v |-> Bool(InStr(r.v.s, l.v.s)), ctx |-> r.ctx]
      [] node.k = "PushResult" ->
            LET l == Eval(node.left, [ctx EXCEPT !.reach = @ + 1]) IN
            IF l.ctx.exc # "" THEN l
            ELSE IF PyTruthy(l.v) THEN [v |-> Bool(TRUE), ctx |-> push_match(l.ctx, node.pred)]
            ELSE [v |-> Bool(FALSE), ctx |-> l.ctx]
      [] node.k = "Branch" ->
            LET res == Eval(node.expr, ctx) IN
            IF res.ctx.exc # "" THEN res
            ELSE IF PyTruthy(res.v) /\ NodeTruthy(node.left) THEN Eval(node.left, res.ctx)
            ELSE IF NodeTruthy(node.right) THEN Eval(node.right, res.ctx)
            ELSE [v |-> Bool(FALSE), ctx |-> res.ctx]
      [] node.k = "Both" ->
            LET l == Eval(node.left, ctx)
                r == Eval(node.right, l.ctx)
            IN  [v |-> IF PyTruthy(l.v) THEN l.v ELSE r.v, ctx |-> r.ctx]
      [] node.k = "CachedNode" ->
            IF node.cache_id \in DOMAIN ctx.cached_res /\ ctx.cached_res[node.cache_id].t # "NoneType"
            THEN LET cached_res == ctx.cached_res[node.cache_id]
                     hit == [ctx EXCEPT !.cache_hits = @ + 1]
                 IN  [v |-> cached_res,
                      ctx |-> IF hit.analyze /\ ~PyTruthy(cached_res)
                              THEN FailureInfoOf(node, hit) ELSE hit]
            ELSE LET l == Eval(node.expr, [ctx EXCEPT !.cache_misses = @ + 1]) IN
                 IF l.ctx.exc # "" THEN l
                 ELSE [v |-> l.v,
                       ctx |-> [l.ctx EXCEPT !.cached_res = (node.cache_id :> l.v) @@ @]]

\* <Class>.failure_info: the re-evaluations run inside "with ctx:"
FailureInfoOf(node, ctx) ==
    CASE node.k = "LogicalOperator" ->
            LET l == Eval(node.left, CtxEnter(ctx))
                c == CtxExit(l.ctx)
            IN  IF node.type = "and" /\ ~PyTruthy(l.v) THEN Fail(c, "Left hand side failed")
                ELSE IF node.type = "or" THEN Fail(c, "Both sides failed")
                ELSE Fail(c, "Right hand side failed")
      [] node.k = "NegateOperator" -> Fail(ctx, "not failed because sub-expression is true")
      [] node.k = "CompareOperator" ->
            LET l == Eval(node.left, CtxEnter(ctx))
                r == Eval(node.right, l.ctx)
                c == CtxExit(r.ctx)
            IN  IF \/ node.type \notin {"=", "!=", "is"} /\ IsSentinel(l.v)
                   \/ IsSentinel(r.v)
                THEN Fail(c, "comparison failed with Undefined or Empty operand")
                ELSE Fail(c, "comparison failed")
      [] node.k = "ContainsOperator" ->
            LET l == Eval(node.left, CtxEnter(ctx))
                c == CtxExit(l.ctx)
            IN  IF ~HasContains(l.v) THEN Fail(c, "Left side does not support contains")
                ELSE LET r == Eval(node.right, CtxEnter(c))
                     IN  Fail(CtxExit(r.ctx), "Right side not in left side")
      [] node.k = "MatchOperator" ->
            LET l == Eval(node.left, CtxEnter(ctx))
                c == CtxExit(l.ctx)
            IN  IF l.v.t # "str" THEN Fail(c, "Regex argument not a string")
                ELSE Fail(c, "Regex does not match")
      [] node.k = "PushResult" -> Fail(ctx, "Predicate failed to match")
      [] node.k = "Branch" ->
            LET res == Eval(node.expr, CtxEnter(ctx))
                c == CtxExit(res.ctx)
            IN  IF PyTruthy(res.v) THEN Fail(c, "Left hand side (True) of Branch failed")
                ELSE Fail(c, "Right hand side (False) of Branch failed")
      [] node.k = "Both" -> Fail(ctx, "Both sides of Both failed")
      [] node.k = "CachedNode" ->
            IF HasFailureInfo(node.expr) THEN FailureInfoOf(node.expr, ctx) ELSE ctx
      [] OTHER -> ctx

\* Node.evaluate(pred, document) with pred_set._results = sink
NodeEvaluate(node, document, sink) ==
    With(Eval(node, EvalContext(document, FALSE, sink)),
         LAMBDA r : [res |-> PyTruthy(r.v), ctx |-> r.ctx])

\* Node.analyze(pred, document)
NodeAnalyze(node, document, sink) ==
    With(Eval(node, EvalContext(document, TRUE, sink)),
         LAMBDA r : [res |-> PyTruthy(r.v), ctx |-> r.ctx])

-----------------------------------------------------------------------------
(* Tiler (tiler.py).  A SimplePattern clause string "types:A,B AND op:x"   *)
(* is the sequence of its clauses, each with the set of its alternatives.  *)

NoPattern == [p |-> "None"]
Pattern == [p |-> "Pattern"]
ASTPattern(a) == [p |-> "ASTPattern", ast |-> a]
Clauses(cs) == [p |-> "str", clauses |-> cs]
Types(ts) == [c |-> "types", a |-> ts]
Ops(os) == [c |-> "ops", a |-> os]
Value(v) == [c |-> "value", a |-> {v}]
SimplePattern(node_p, left_p, right_p) ==
    [p |-> "SimplePattern", node_p |-> node_p, left_p |-> left_p, right_p |-> right_p]

\* str(node.value), for the values a "value:" clause is compared with
PyStr(v) ==
    CASE v.t = "bool" -> IF v.b THEN "True" ELSE "False"
      [] v.t = "NoneType" -> "None"
      [] v.t = "frozenset" -> IF v.e = {} THEN "frozenset()" ELSE "frozenset({...})"
      [] OTHER -> "<str of a string or a number>"

\* SimplePattern.node_op / node_value ("None" when the attribute is missing)
node_op(n) == IF HasType(n) THEN n.type ELSE "None"
node_value(n) == IF HasValue(n) THEN PyStr(n.value) ELSE "None"

RECURSIVE compare_nodes(_, _)
\* ASTPattern.compare_nodes
compare_nodes(a, b) ==
    IF a.k # b.k THEN FALSE
    ELSE IF HasValue(a) /\ a.value # b.value THEN FALSE
    ELSE IF HasType(a) /\ a.type # b.type THEN FALSE
    ELSE IF HasLeft(a) /\ ~compare_nodes(a.left, b.left) THEN FALSE
    ELSE IF HasRight(b) /\ ~compare_nodes(a.right, b.right) THEN FALSE
    ELSE TRUE

\* ExtraBothPattern._replacement (None when neither side is Constant False)
ExtraBothReplacement(n) ==
    IF n.left.k = "Constant" /\ PyEq(n.left.value, Bool(FALSE)) THEN n.right
    ELSE IF n.right.k = "Constant" /\ PyEq(n.right.value, Bool(FALSE)) THEN n.left
    ELSE NoneNode

\* ShortCircuitLogicalPattern._replacement
ShortCircuitReplacement(n) ==
    IF n.left.k = "Constant"
    THEN IF n.type = "and" /\ PyEq(n.left.value, Bool(TRUE)) THEN n.right
         ELSE IF n.type = "or" /\ PyEq(n.left.value, Bool(FALSE)) THEN n.right
         ELSE NoneNode
    ELSE IF n.right.k = "Constant"
    THEN IF n.type = "and" /\ PyEq(n.right.value, Bool(TRUE)) THEN n.left
         ELSE IF n.type = "or" /\ PyEq(n.right.value, Bool(FALSE)) THEN n.left
         ELSE NoneNode
    ELSE NoneNode

\* DeadBranchPattern.replacement
DeadBranchReplacement(n) ==
    IF PyTruthy(n.expr.value)
    THEN (IF NodeTruthy(n.left) THEN n.left ELSE ConstFalse)
    ELSE (IF NodeTruthy(n.right) THEN n.right ELSE ConstFalse)

RECURSIVE check_clauses(_, _)
\* SimplePattern._check_pattern on a clause string
check_clauses(cs, n) ==
    IF cs = <<>> THEN TRUE
    ELSE LET c == Head(cs)
             ok == CASE c.c = "types" -> n.k \in c.a
                     [] c.c = "ops" -> node_op(n) \in c.a
                     [] c.c = "value" -> node_value(n) \in c.a
         IN  ok /\ check_clauses(Tail(cs), n)

RECURSIVE matches(_, _)
\* <Pattern class>.matches
matches(p, n) ==
    CASE p.p = "Pattern" -> TRUE
      [] p.p = "ASTPattern" -> compare_nodes(p.ast, n)
      [] p.p = "str" -> check_clauses(p.clauses, n)
      [] p.p = "SimplePattern" ->
            /\ matches(p.node_p, n)
            /\ p.left_p.p = "None" \/ matches(p.left_p, n.left)
            /\ p.right_p.p = "None" \/ matches(p.right_p, n.right)
      [] p.p = "ExtraBothPattern" ->
            n.k = "Both" /\ NodeTruthy(ExtraBothReplacement(n))
      [] p.p = "ShortCircuitLogicalPattern" ->
            n.k = "LogicalOperator" /\ NodeTruthy(ShortCircuitReplacement(n))
      [] p.p = "DeadBranchPattern" ->
            n.k = "Branch" /\ n.expr.k = "Constant"

\* The first pattern at or after position i that matches the node, 0 if none
NextMatch(n, patterns, i) ==
    With({j \in i..Len(patterns) : matches(patterns[j], n)}, LAMBDA hits :
        IF hits = {} THEN 0 ELSE CHOOSE j \in hits : \A h \in hits : j <= h)

RECURSIVE tile(_, _, _, _), TilePatterns(_, _, _, _, _)

\* The "for p in patterns" loop of tile, from the pattern at position i on:
\* the patterns that do not match are passed over; for one that matches,
\* func(p, node, acc) gives the node that stands in the node's place
\* afterwards (its replacement, or the node as func changed it in place) and
\* the callback's own state, and the later patterns see that node
TilePatterns(n, patterns, i, func(_, _, _), acc) ==
    With(NextMatch(n, patterns, i), LAMBDA j :
        IF j = 0 THEN [ast |-> n, acc |-> acc]
        ELSE With(func(patterns[j], n, acc),
                  LAMBDA r : TilePatterns(r.ast, patterns, j + 1, func, r.acc)))

\* A subtree that is not there: nothing tiled, the callback's state as it was
NoSubtree(acc) == [ast |-> NoneNode, acc |-> acc]

\* tile(ast, patterns, func); acc is the state the callback closes over
tile(n, patterns, func(_, _, _), acc) ==
    With(TilePatterns(n, patterns, 1, func, acc), LAMBDA here :
    With(IF HasLeft(here.ast) THEN tile(here.ast.left, patterns, func, here.acc)
         ELSE NoSubtree(here.acc), LAMBDA l :
    With(IF HasRight(here.ast) THEN tile(here.ast.right, patterns, func, l.acc)
         ELSE NoSubtree(l.acc), LAMBDA r :
    [ast |-> IF HasRight(here.ast)
             THEN [here.ast EXCEPT !.left = l.ast, !.right = r.ast]
             ELSE IF HasLeft(here.ast) THEN [here.ast EXCEPT !.left = l.ast]
             ELSE here.ast,
     acc |-> r.acc])))

-----------------------------------------------------------------------------
(* Static resolution (merge.py) and canonicalization (compare.py) *)

\* merge.static_resolution
static_resolution(n) ==
    tile(n, <<SimplePattern(Clauses(<<Types({"Literal", "LiteralSet"})>>), NoPattern, NoPattern)>>,
         LAMBDA p, lit, acc :
             [ast |-> IF lit.k = "Literal" THEN LiteralStaticResolve(lit)
                      ELSE LiteralSetStaticResolve(lit),
              acc |-> acc],
         0).ast

\* replace_func as it would be if two literals were swapped unless the left
\* one is the smaller: equal names are swapped every time
canonicalize_replace_func_swapping_equal(n) ==
    LET l_literal == n.left.k = "Literal"
        r_literal == n.right.k = "Literal"
    IN  IF ~l_literal /\ r_literal THEN reverse(n)
        ELSE IF l_literal /\ r_literal
        THEN IF n.left.static /\ ~n.right.static THEN reverse(n)
             ELSE IF ~n.left.static /\ ~n.right.static
                     /\ ~StrLess(n.left.value.s, n.right.value.s) THEN reverse(n)
             ELSE IF n.left.static /\ n.right.static
                     /\ ~StrLess(n.left.value.s, n.right.value.s) THEN reverse(n)
             ELSE n
        ELSE n

\* canonicalize.replace_func
canonicalize_replace_func(n) ==
    LET l_literal == n.left.k = "Literal"
        r_literal == n.right.k = "Literal"
    IN  IF ~l_literal /\ r_literal THEN reverse(n)
        ELSE IF l_literal /\ r_literal
        THEN IF n.left.static /\ ~n.right.static THEN reverse(n)
             ELSE IF ~n.left.static /\ ~n.right.static
                     /\ StrLess(n.right.value.s, n.left.value.s) THEN reverse(n)
             ELSE IF n.left.static /\ n.right.static
                     /\ StrLess(n.right.value.s, n.left.value.s) THEN reverse(n)
             ELSE n
        ELSE n

\* compare.canonicalize
canonicalize(n) ==
    tile(n, <<SimplePattern(Clauses(<<Types({"CompareOperator"})>>), NoPattern, NoPattern)>>,
         LAMBDA p, c, acc : [ast |-> canonicalize_replace_func(c), acc |-> acc],
         0).ast

-----------------------------------------------------------------------------
(* Peephole optimizer (optimizer.py) *)

ConstIs(v) == Clauses(<<Types({"Constant"}), Value(v)>>)
WithReplacement(p, r) == [pattern |-> p, replacement |-> r]

\* optimization_patterns: p1 .. p14, each with its replacement (None for the
\* three pattern classes whose replacement is a method)
optimization_patterns ==
    << WithReplacement(SimplePattern(Clauses(<<Types({"LogicalOperator"}), Ops({"and"})>>),
                                     ConstIs("False"), NoPattern), ConstFalse),
       WithReplacement(SimplePattern(Clauses(<<Types({"LogicalOperator"}), Ops({"and"})>>),
                                     NoPattern, ConstIs("False")), ConstFalse),
       WithReplacement(SimplePattern(Clauses(<<Types({"LogicalOperator"}), Ops({"or"})>>),
                                     ConstIs("True"), NoPattern), ConstTrue),
       WithReplacement(SimplePattern(Clauses(<<Types({"LogicalOperator"}), Ops({"or"})>>),
                                     NoPattern, ConstIs("True")), ConstTrue),
       WithReplacement(SimplePattern(Clauses(<<Types({"NegateOperator"})>>),
                                     ConstIs("True"), NoPattern), ConstFalse),
       WithReplacement(SimplePattern(Clauses(<<Types({"NegateOperator"})>>),
                                     ConstIs("False"), NoPattern), ConstTrue),
       WithReplacement(SimplePattern(Clauses(<<Types({"PushResult"})>>),
                                     ConstIs("False"), NoPattern), ConstFalse),
       WithReplacement(SimplePattern(Clauses(<<Types({"Both"})>>),
                                     ConstIs("False"), ConstIs("False")), ConstFalse),
       WithReplacement([p |-> "ExtraBothPattern"], NoneNode),
       WithReplacement([p |-> "ShortCircuitLogicalPattern"], NoneNode),
       WithReplacement([p |-> "DeadBranchPattern"], NoneNode),
       WithReplacement(SimplePattern(Clauses(<<Types({"LiteralSet"}), Value("frozenset([])")>>),
                                     NoPattern, NoPattern), EmptyNode),
       WithReplacement(SimplePattern(Clauses(<<Types({"ContainsOperator"})>>),
                                     Clauses(<<Types({"Empty", "Undefined"})>>), NoPattern), ConstFalse),
       WithReplacement(SimplePattern(Clauses(<<Types({"LiteralSet"}), Value("frozenset()")>>),
                                     NoPattern, NoPattern), EmptyNode) >>

\* optimization_func: count the change, give the pattern's replacement
optimization_func(p, n, c) ==
    LET i == CHOOSE j \in 1..Len(optimization_patterns) : optimization_patterns[j].pattern = p
        r == CASE p.p = "ExtraBothPattern" -> ExtraBothReplacement(n)
               [] p.p = "ShortCircuitLogicalPattern" -> ShortCircuitReplacement(n)
               [] p.p = "DeadBranchPattern" -> DeadBranchReplacement(n)
               [] OTHER -> optimization_patterns[i].replacement
    IN  [ast |-> r, acc |-> c + 1]

\* A pass that replaces as optimization_pass does but reports no change
optimization_pass_uncounted(n) ==
    With(tile(n, [i \in 1..Len(optimization_patterns) |-> optimization_patterns[i].pattern],
              optimization_func, 0),
         LAMBDA t : [changes |-> 0, ast |-> t.ast])

\* optimization_pass: (changes, ast)
optimization_pass(n) ==
    With(tile(n, [i \in 1..Len(optimization_patterns) |-> optimization_patterns[i].pattern],
              optimization_func, 0),
         LAMBDA t : [changes |-> t.acc, ast |-> t.ast])

RECURSIVE OptimizeLoop(_, _, _, _, _)
OptimizeLoop(n, passes, changes, max_pass, min_change) ==
    IF passes < max_pass /\ changes >= min_change
    THEN With(optimization_pass(n),
              LAMBDA r : OptimizeLoop(r.ast, passes + 1, r.changes, max_pass, min_change))
    ELSE n

\* optimizer.optimize
optimize(n, max_pass, min_change) == OptimizeLoop(n, 0, min_change, max_pass, min_change)

-----------------------------------------------------------------------------
(* Hashable node names (merge.node_name, compact.node_name).  A name is a  *)
(* Python tuple of strings, numbers and tuples.                            *)

Tup(items) == [t |-> "tuple", items |-> items]

\* The code points of the words the source writes in names
Chars(w) ==
    CASE w = "Literal" -> <<76, 105, 116, 101, 114, 97, 108>>
      [] w = "LiteralSet" -> <<76, 105, 116, 101, 114, 97, 108, 83, 101, 116>>
      [] w = "Number" -> <<78, 117, 109, 98, 101, 114>>
      [] w = "Constant" -> <<67, 111, 110, 115, 116, 97, 110, 116>>
      [] w = "Regex" -> <<82, 101, 103, 101, 120>>
      [] w = "Undefined" -> <<85, 110, 100, 101, 102, 105, 110, 101, 100>>
      [] w = "Empty" -> <<69, 109, 112, 116, 121>>
      [] w = "NegateOperator" -> <<78, 101, 103, 97, 116, 101, 79, 112, 101, 114, 97, 116, 111, 114>>
      [] w = "CompareOperator" -> <<67, 111, 109, 112, 97, 114, 101, 79, 112, 101, 114, 97, 116, 111, 114>>
      [] w = "LogicalOperator" -> <<76, 111, 103, 105, 99, 97, 108, 79, 112, 101, 114, 97, 116, 111, 114>>
      [] w = "MatchOperator" -> <<77, 97, 116, 99, 104, 79, 112, 101, 114, 97, 116, 111, 114>>
      [] w = "ContainsOperator" -> <<67, 111, 110, 116, 97, 105, 110, 115, 79, 112, 101, 114, 97, 116, 111, 114>>
      [] w = "static" -> <<115, 116, 97, 116, 105, 99>>
      [] w = "equality" -> <<101, 113, 117, 97, 108, 105, 116, 121>>
      [] w = "order" -> <<111, 114, 100, 101, 114>>
      [] w = "=" -> <<61>>
      [] w = "!=" -> <<33, 61>>
      [] w = "is" -> <<105, 115>>
      [] w = "<" -> <<60>>
      [] w = "<=" -> <<60, 61>>
      [] w = ">" -> <<62>>
      [] w = ">=" -> <<62, 61>>
      [] w = "and" -> <<97, 110, 100>>
      [] w = "or" -> <<111, 114>>
      [] w = "True" -> <<84, 114, 117, 101>>
      [] w = "False" -> <<70, 97, 108, 115, 101>>
      [] w = "None" -> <<78, 111, 110, 101>>

Word(w) == Str(Chars(w))

RECURSIVE merge_node_name(_, _)
\* merge.node_name(node, enable_static); [t |-> "raise"] for "Unhandled class"
merge_node_name(n, enable_static) ==
    CASE n.k = "Literal" ->
            IF enable_static /\ n.static THEN Tup(<<Word("Literal"), Word("static")>>)
            ELSE Tup(<<Word("Literal"), n.value>>)
      [] n.k = "LiteralSet" -> Word("LiteralSet")
      [] n.k = "Number" ->
            IF enable_static THEN Tup(<<Word("Number"), Word("static")>>)
            ELSE Tup(<<Word("Number"), n.value>>)
      [] n.k \in {"Constant", "Regex"} -> Tup(<<Word(n.k), n.value>>)
      [] n.k \in {"Undefined", "Empty"} -> Word(n.k)
      [] n.k = "NegateOperator" -> merge_node_name(n.left, FALSE)
      [] n.k = "CompareOperator" ->
            LET type == IF enable_static
                        THEN (IF n.type \in {"=", "!=", "is"} THEN "equality" ELSE "order")
                        ELSE n.type
            IN  Tup(<<Word("CompareOperator"), Word(type),
                      merge_node_name(n.left, enable_static),
                      merge_node_name(n.right, enable_static)>>)
      [] n.k = "LogicalOperator" ->
            LET l_name == merge_node_name(n.left, FALSE) IN
            IF l_name.t = "tuple" /\ l_name.items[1] = Word("Literal") THEN l_name
            ELSE merge_node_name(n.right, FALSE)
      [] n.k \in {"MatchOperator", "ContainsOperator"} ->
            Tup(<<Word(n.k), merge_node_name(n.left, FALSE), merge_node_name(n.right, FALSE)>>)
      [] OTHER -> [t |-> "raise"]

RECURSIVE compact_node_name(_)
\* compact.node_name(node); NoneV for the classes it does not name
compact_node_name(n) ==
    CASE n.k \in {"Literal", "Number", "Constant", "Regex", "LiteralSet"} ->
            Tup(<<Word(n.k), n.value>>)
      [] n.k \in {"Undefined", "Empty"} -> Word(n.k)
      [] n.k = "NegateOperator" -> Tup(<<Word(n.k), compact_node_name(n.left)>>)
      [] n.k \in {"CompareOperator", "LogicalOperator"} ->
            Tup(<<Word(n.k), Word(n.type), compact_node_name(n.left), compact_node_name(n.right)>>)
      [] n.k \in {"MatchOperator", "ContainsOperator"} ->
            Tup(<<Word(n.k), compact_node_name(n.left), compact_node_name(n.right)>>)
      [] OTHER -> NoneV

RECURSIVE Digits(_)
\* The decimal digits of a natural number
Digits(n) == IF n < 10 THEN <<48 + n>> ELSE Digits(n \div 10) \o <<48 + (n % 10)>>

RECURSIVE EscapeQuotes(_)
EscapeQuotes(s) ==
    IF s = <<>> THEN <<>>
    ELSE (IF Head(s) = Quote THEN <<92, Quote>> ELSE <<Head(s)>>) \o EscapeQuotes(Tail(s))

RECURSIVE PyRepr(_), JoinRepr(_, _)
\* repr(v) of a name: str repr picks the quote the string does not hold
PyRepr(v) ==
    CASE v.t = "str" ->
            IF (\E i \in 1..Len(v.s) : v.s[i] = Quote) /\ ~(\E i \in 1..Len(v.s) : v.s[i] = DblQuote)
            THEN <<DblQuote>> \o v.s \o <<DblQuote>>
            ELSE <<Quote>> \o EscapeQuotes(v.s) \o <<Quote>>
      [] v.t = "float" ->
            (IF v.n < 0 THEN <<45>> \o Digits(-v.n) ELSE Digits(v.n)) \o <<46, 48>>
      [] v.t = "bool" -> IF v.b THEN Chars("True") ELSE Chars("False")
      [] v.t = "NoneType" -> Chars("None")
      [] v.t = "tuple" -> <<40>> \o JoinRepr(v.items, 1) \o <<41>>

\* ", ".join(repr(x) for x in items[i:])
JoinRepr(items, i) ==
    IF i > Len(items) THEN <<>>
    ELSE PyRepr(items[i]) \o (IF i < Len(items) THEN <<44, 32>> ELSE <<>>) \o JoinRepr(items, i + 1)

\* str(name): a tuple prints as its repr, a string as itself
NameStr(name) == IF name.t = "str" THEN name.s ELSE PyRepr(name)

-----------------------------------------------------------------------------
(* Expression counting (merge.py) and the selection helpers (util.py) *)

\* merge.count_patterns: p1 .. p6
count_patterns ==
    LET simple_types == Clauses(<<Types({"Literal", "LiteralSet", "Number", "Constant",
                                         "Undefined", "Empty"})>>)
        lit == Clauses(<<Types({"Literal"})>>)
    IN  << SimplePattern(Clauses(<<Types({"NegateOperator"})>>), lit, NoPattern),
           SimplePattern(Clauses(<<Types({"CompareOperator"})>>), simple_types, simple_types),
           SimplePattern(Clauses(<<Types({"MatchOperator"})>>), simple_types, NoPattern),
           SimplePattern(Clauses(<<Types({"ContainsOperator"})>>), simple_types, simple_types),
           SimplePattern(Clauses(<<Types({"LogicalOperator"})>>), lit, NoPattern),
           SimplePattern(Clauses(<<Types({"LogicalOperator"})>>), NoPattern, lit) >>

\* counts[name] += 1; nodes[name].append(node).  The two dictionaries are one
\* sequence of entries in insertion order.
AddCount(entries, name, n) ==
    IF \E i \in 1..Len(entries) : entries[i].name = name
    THEN [i \in 1..Len(entries) |->
             IF entries[i].name = name
             THEN [entries[i] EXCEPT !.nodes = Append(@, n)]
             ELSE entries[i]]
    ELSE Append(entries, [name |-> name, nodes |-> <<n>>])

\* count_expressions.count_func
count_func(p, n, acc) ==
    [ast |-> n, acc |-> AddCount(acc, merge_node_name(n, n.k = "CompareOperator"), n)]

\* merge.count_expressions
count_expressions(n) == tile(n, count_patterns, count_func, <<>>).acc

\* (-c, str(n)) < (-d, str(m)), the order of the heap of util.max_count
HeapLess(a, b) ==
    \/ Len(a.nodes) > Len(b.nodes)
    \/ Len(a.nodes) = Len(b.nodes) /\ StrLess(NameStr(a.name), NameStr(b.name))

RECURSIVE max_count(_)
\* util.max_count: the entries in the order the generator yields them
max_count(entries) ==
    IF entries = <<>> THEN <<>>
    ELSE With(CHOOSE i \in 1..Len(entries) :
                  \A j \in 1..Len(entries) : j # i => ~HeapLess(entries[j], entries[i]),
              LAMBDA i :
                  <<entries[i]>>
                  \o max_count([j \in 1..(Len(entries) - 1) |->
                                   IF j < i THEN entries[j] ELSE entries[j + 1]]))

\* x == y for the values a node holds (frozenset compares by its items)
ValueEq(a, b) ==
    IF a.t = "frozenset" \/ b.t = "frozenset" THEN a = b ELSE PyEq(a, b)

\* util.mode: the first-inserted value among those of the highest count
mode(lst) ==
    LET cnt(v) == Cardinality({i \in 1..Len(lst) : ValueEq(lst[i], v)})
        first == CHOOSE i \in 1..Len(lst) :
                     /\ \A j \in 1..Len(lst) : cnt(lst[j]) <= cnt(lst[i])
                     /\ \A j \in 1..(i - 1) : cnt(lst[j]) < cnt(lst[i])
    IN  IF lst = <<>> THEN NoneV ELSE lst[first]

\* util.median: lst.sort(); lst[len(lst) // 2]
median(lst) ==
    LET middle == Len(lst) \div 2
        below(v) == Cardinality({j \in 1..Len(lst) : PyLess(lst[j], v)})
        upto(v) == Cardinality({j \in 1..Len(lst) : ~PyLess(v, lst[j])})
        i == CHOOSE i \in 1..Len(lst) : below(lst[i]) <= middle /\ middle < upto(lst[i])
    IN  lst[i]

RECURSIVE SumSeq(_), ProdSeq(_)
SumSeq(q) == IF q = <<>> THEN 0 ELSE Head(q) + SumSeq(Tail(q))
ProdSeq(q) == IF q = <<>> THEN 1 ELSE Head(q) * ProdSeq(Tail(q))

\* util.harmonic_mean(lst) < bound for lst = [c / total for c in cs] and the
\* bound num / den, in exact arithmetic:
\*   n / sum(total / c) < num / den   iff   n * den * prod(cs) < num * total * sum(prod(cs) / c)
harmonic_mean_below(cs, total, bound) ==
    LET n == Len(cs)
        inv == [i \in 1..n |-> ProdSeq([j \in 1..n |-> IF j = i THEN 1 ELSE cs[j]])]
    IN  n * bound.den * ProdSeq(cs) < bound.num * total * SumSeq(inv)

-----------------------------------------------------------------------------
(* Choice of the branch expression (compare.py, contains.py, merge.py).    *)
(* A selection is [expr, exc]: expr is NoneNode when the code returns None *)
(* and exc names the exception the code raises.                            *)

Selected(e) == [expr |-> e, exc |-> ""]
SelectRaises(e) == [expr |-> NoneNode, exc |-> e]

\* the first e of exprs with e.right.value == filter_using
FirstWithValue(exprs, filter_using) ==
    IF \E i \in 1..Len(exprs) : ValueEq(exprs[i].right.value, filter_using)
    THEN exprs[CHOOSE i \in 1..Len(exprs) :
                   /\ ValueEq(exprs[i].right.value, filter_using)
                   /\ \A j \in 1..(i - 1) : ~ValueEq(exprs[j].right.value, filter_using)]
    ELSE NoneNode

\* compare.select_rewrite_expression
compare_select_rewrite_expression(name, exprs) ==
    LET values == [i \in 1..Len(exprs) |-> exprs[i].right.value]
        family == name.items[2]
        is_static == name.items[4].t = "tuple" /\ name.items[4].items[2] = Word("static")
    IN  IF family \notin {Word("equality"), Word("order")} THEN Selected(exprs[1])
        ELSE IF \E i \in 1..Len(exprs) : ~HasValue(exprs[i].right)
        THEN SelectRaises("AttributeError")
        ELSE IF family = Word("equality") THEN Selected(FirstWithValue(exprs, mode(values)))
        ELSE IF is_static THEN Selected(FirstWithValue(exprs, median(values)))
        ELSE Selected(FirstWithValue(exprs, mode(values)))

\* the items of a frozenset as a sequence without repetition
RECURSIVE SetToSeq(_)
SetToSeq(e) ==
    IF e = {} THEN <<>> ELSE LET x == CHOOSE x \in e : TRUE IN <<x>> \o SetToSeq(e \ {x})

\* contains.select_rewrite_expression: only scores[0] is looked at, the
\* sorted copy is dropped
contains_select_rewrite_expression(s, name, exprs) ==
    LET sets == [i \in 1..Len(exprs) |-> exprs[i].left.value.e]
        counts(item) == Cardinality({i \in 1..Len(sets) : item \in sets[i]})
        total == SumSeq([i \in 1..Len(sets) |-> Cardinality(sets[i])])
        first == SetToSeq(sets[1])
        cs == [i \in 1..Len(first) |-> counts(first[i])]
    IN  IF \E i \in 1..Len(sets) : sets[i] = {} THEN SelectRaises("ZeroDivisionError")
        ELSE IF harmonic_mean_below(cs, total, s.min_density) THEN Selected(NoneNode)
        ELSE Selected(exprs[1])

IsContainsSetName(name) ==
    /\ name.t = "tuple"
    /\ name.items[1] = Word("ContainsOperator")
    /\ name.items[2] = Word("LiteralSet")

IsCompareName(name) == name.t = "tuple" /\ name.items[1] = Word("CompareOperator")

\* merge.select_rewrite_expression
select_rewrite_expression(s, name, exprs) ==
    IF IsCompareName(name) THEN compare_select_rewrite_expression(name, exprs)
    ELSE IF IsContainsSetName(name) THEN contains_select_rewrite_expression(s, name, exprs)
    ELSE IF exprs[1].k = "NegateOperator" THEN Selected(exprs[1].left)
    ELSE IF exprs[1].k = "LogicalOperator"
    THEN (IF exprs[1].left.k = "Literal" THEN Selected(exprs[1].left)
          ELSE Selected(exprs[1].right))
    ELSE Selected(exprs[1])

-----------------------------------------------------------------------------
(* Rewrites under an assumed result (compare.py, contains.py, merge.py).   *)
(* The tile accumulator is the exception raised by the callback so far; a  *)
(* rewrite gives [ast, exc].                                               *)

EQUALITY == {"=", "is"}

Rewritten(t) == [ast |-> t.ast, exc |-> t.acc]
RewriteRaises(n, e) == [ast |-> n, exc |-> e]

\* hasattr(node, "value") and hasattr(node, "static")
HasStatic(n) == n.k \in {"Literal", "LiteralSet"}

\* equality_rewrite.replace_func
equality_replace_func(n, static_value, is_static, known) ==
    With(ValueEq(n.right.value, static_value), LAMBDA static_match :
        IF known /\ is_static /\ n.right.static
        THEN Constant(Bool(IF n.type \in EQUALITY THEN static_match ELSE ~static_match))
        ELSE IF static_match
        THEN Constant(Bool(IF n.type \in EQUALITY THEN known ELSE ~known))
        ELSE n)

\* compare.equality_rewrite
equality_rewrite(node, name, expr, assumed_result) ==
    IF ~HasStatic(expr.right) THEN RewriteRaises(node, "AttributeError")
    ELSE
    LET static_value == expr.right.value
        is_static == expr.right.static
        known == IF expr.type \in EQUALITY THEN assumed_result ELSE ~assumed_result
        pattern == SimplePattern(Clauses(<<Types({"CompareOperator"}), Ops({"=", "!=", "is"})>>),
                                 ASTPattern(expr.left), NoPattern)
    IN  Rewritten(tile(node, <<pattern>>,
                       LAMBDA p, n, acc :
                           IF acc # "" THEN [ast |-> n, acc |-> acc]
                           ELSE IF ~HasStatic(n.right) THEN [ast |-> n, acc |-> "AttributeError"]
                           ELSE [ast |-> equality_replace_func(n, static_value, is_static, known),
                                 acc |-> acc],
                       ""))

\* float("-inf"), float("inf") and the finite bounds of order_rewrite
Bound(v) == [inf |-> 0, v |-> v]
NegInf == [inf |-> -1, v |-> 0]
PosInf == [inf |-> 1, v |-> 0]
GtBound(x, b) == IF b.inf # 0 THEN b.inf < 0 ELSE x > b.v
LtBound(x, b) == IF b.inf # 0 THEN b.inf > 0 ELSE x < b.v
EqBound(x, b) == b.inf = 0 /\ x = b.v

\* the numeric branch of order_rewrite.replace_func; the node itself when
\* const stays None
order_numeric_const(n, min_bound, min_incl, max_bound, max_incl) ==
    LET node_val == n.right.value.n
        assert_less == n.type \in {"<", "<="}
        assert_equals == n.type \in {"<=", ">="}
    IN  IF assert_less
        THEN IF GtBound(node_val, max_bound) THEN ConstTrue
             ELSE IF EqBound(node_val, max_bound) /\ max_incl /\ assert_equals THEN ConstTrue
             ELSE IF EqBound(node_val, max_bound) /\ ~max_incl THEN ConstTrue
             ELSE IF LtBound(node_val, min_bound) THEN ConstFalse
             ELSE IF EqBound(node_val, min_bound) /\ ~assert_equals THEN ConstFalse
             ELSE IF EqBound(node_val, min_bound) /\ assert_equals /\ ~min_incl THEN ConstFalse
             ELSE n
        ELSE IF LtBound(node_val, min_bound) THEN ConstTrue
             ELSE IF EqBound(node_val, min_bound) /\ ~min_incl THEN ConstTrue
             ELSE IF EqBound(node_val, min_bound) /\ min_incl /\ assert_equals THEN ConstTrue
             ELSE IF GtBound(node_val, max_bound) THEN ConstFalse
             ELSE IF EqBound(node_val, max_bound) /\ ~assert_equals THEN ConstFalse
             ELSE IF EqBound(node_val, max_bound) /\ assert_equals /\ ~max_incl THEN ConstFalse
             ELSE n

\* compare.order_rewrite
order_rewrite(node, name, expr, assumed_result) ==
    IF ~HasValue(expr.right) THEN RewriteRaises(node, "AttributeError")
    ELSE
    LET static_value == expr.right.value
        numeric == expr.right.k = "Number"
        expr_less == expr.type \in {"<", "<="}
        expr_equals == expr.type \in {"<=", ">="}
        sv == IF numeric THEN Bound(static_value.n) ELSE Bound(0)
        min_bound == IF expr_less = assumed_result THEN NegInf ELSE sv
        max_bound == IF expr_less = assumed_result THEN sv ELSE PosInf
        min_incl == CASE expr_less /\ ~assumed_result -> ~expr_equals
                      [] ~expr_less /\ assumed_result -> expr_equals
                      [] OTHER -> FALSE
        max_incl == CASE expr_less /\ assumed_result -> expr_equals
                      [] ~expr_less /\ ~assumed_result -> ~expr_equals
                      [] OTHER -> FALSE
        less_than == IF assumed_result THEN expr_less ELSE ~expr_less
        maybe_equals == IF assumed_result THEN expr_equals ELSE ~expr_equals
        pattern == SimplePattern(Clauses(<<Types({"CompareOperator"}), Ops({"<", "<=", ">", ">="})>>),
                                 ASTPattern(expr.left),
                                 Clauses(<<Types({IF numeric THEN "Number" ELSE "Literal"})>>))
        literal_const(n) ==
            LET const == less_than = (n.type \in {"<", "<="})
            IN  Constant(Bool(IF maybe_equals THEN const /\ n.type \in {"<=", ">="} ELSE const))
    IN  Rewritten(tile(node, <<pattern>>,
                       LAMBDA p, n, acc :
                           [ast |-> IF ~numeric /\ PyNe(n.right.value, static_value) THEN n
                                    ELSE IF ~numeric THEN literal_const(n)
                                    ELSE order_numeric_const(n, min_bound, min_incl,
                                                             max_bound, max_incl),
                            acc |-> acc],
                       ""))

\* compare.compare_rewrite
compare_rewrite(node, name, expr, assumed_result) ==
    IF name.items[2] = Word("equality") THEN equality_rewrite(node, name, expr, assumed_result)
    ELSE IF name.items[2] = Word("order") THEN order_rewrite(node, name, expr, assumed_result)
    ELSE RewriteRaises(node, "AssertionError")

\* A replace_func that weighs and negates the sibling's own remainder
contains_replace_func_sibling_difference(n, expr_set, assumed_result) ==
    LET mine == n.left.value.e
        with(e) == [n EXCEPT !.left.value = FrozenSet(e)]
    IN  IF assumed_result
        THEN LET set_prime == mine \cap expr_set
                 set_prime_diff == mine \ expr_set
             IN  IF set_prime = expr_set THEN ConstTrue
                 ELSE IF Cardinality(set_prime) = 0 THEN ConstFalse
                 ELSE IF Cardinality(set_prime_diff) < Cardinality(set_prime)
                 THEN NegateOperator(with(set_prime_diff))
                 ELSE with(set_prime)
        ELSE LET set_prime == mine \ expr_set
             IN  IF Cardinality(set_prime) = 0 THEN ConstFalse ELSE with(set_prime)

\* contains_rewrite.replace_func
contains_replace_func(n, expr_set, assumed_result) ==
    LET mine == n.left.value.e
        with(e) == [n EXCEPT !.left.value = FrozenSet(e)]
    IN  IF assumed_result
        THEN LET set_prime == mine \cap expr_set
                 set_prime_diff == expr_set \ mine
             IN  IF set_prime = expr_set THEN ConstTrue
                 ELSE IF Cardinality(set_prime) = 0 THEN ConstFalse
                 ELSE IF Cardinality(set_prime_diff) < Cardinality(set_prime)
                 THEN NegateOperator(with(set_prime_diff))
                 ELSE with(set_prime)
        ELSE LET set_prime == mine \ expr_set
             IN  IF Cardinality(set_prime) = 0 THEN ConstFalse ELSE with(set_prime)

\* contains.contains_rewrite
contains_rewrite(node, name, expr, assumed_result) ==
    LET expr_set == expr.left.value.e
        pattern == SimplePattern(Clauses(<<Types({"ContainsOperator"})>>),
                                 Clauses(<<Types({"LiteralSet"})>>), ASTPattern(expr.right))
    IN  Rewritten(tile(node, <<pattern>>,
                       LAMBDA p, n, acc :
                           [ast |-> contains_replace_func(n, expr_set, assumed_result), acc |-> acc],
                       ""))

\* merge.rewrite_ast
rewrite_ast(node, name, expr, assumed_result) ==
    IF IsCompareName(name) THEN compare_rewrite(node, name, expr, assumed_result)
    ELSE IF IsContainsSetName(name) THEN contains_rewrite(node, name, expr, assumed_result)
    ELSE Rewritten(tile(node, <<ASTPattern(expr)>>,
                        LAMBDA p, n, acc : [ast |-> Constant(Bool(assumed_result)), acc |-> acc],
                        ""))

-----------------------------------------------------------------------------
(* The refactor pipeline (merge.py, compact.py, cache.py) *)

\* RefactorSettings.__init__; min_density is the fraction num / den
RefactorSettings(max_depth, min_select, max_opt_pass, min_change, min_density) ==
    [is_none |-> FALSE, max_depth |-> max_depth, min_select |-> min_select,
     max_opt_pass |-> max_opt_pass, min_change |-> min_change, min_density |-> min_density,
     static_rewrite |-> TRUE, canonicalize |-> TRUE, initial_optimize |-> TRUE,
     refactor |-> TRUE, compact |-> TRUE, cache_expr |-> TRUE]

\* settings=None
NoSettings == [is_none |-> TRUE]

\* RefactorSettings.shallow()
shallow == RefactorSettings(4, 16, 32, 1, [num |-> 5, den |-> 100])

RECURSIVE SelectLoop(_, _, _)
\* The "for max, name in util.max_count(count)" loop of recursive_refactor:
\* [stop, name, expr, exc]; stop when the code returns node unchanged
SelectLoop(s, order, j) ==
    IF j > Len(order)
    THEN [stop |-> TRUE, name |-> NoneV, expr |-> NoneNode, exc |-> ""]
    ELSE IF Len(order[j].nodes) < s.min_select
    THEN [stop |-> TRUE, name |-> NoneV, expr |-> NoneNode, exc |-> ""]
    ELSE With(select_rewrite_expression(s, order[j].name, order[j].nodes), LAMBDA sel :
             IF sel.exc # ""
             THEN [stop |-> TRUE, name |-> order[j].name, expr |-> NoneNode, exc |-> sel.exc]
             ELSE IF sel.expr.k # "None"
             THEN [stop |-> FALSE, name |-> order[j].name, expr |-> sel.expr, exc |-> ""]
             ELSE SelectLoop(s, order, j + 1))

RECURSIVE recursive_refactor(_, _, _), refactor_side(_, _, _, _, _)

\* One branch of recursive_refactor: rewrite_ast under the assumed result,
\* optimize, recursive_refactor at depth + 1.  The left branch works on
\* dup(node), the right one on node itself; as values they are the same tree.
refactor_side(node, s, depth, pick, assumed_result) ==
    With(rewrite_ast(node, pick.name, pick.expr, assumed_result), LAMBDA w :
        IF w.exc # "" THEN w
        ELSE With(optimize(w.ast, s.max_opt_pass, s.min_change),
                  LAMBDA o : recursive_refactor(o, s, depth + 1)))

\* merge.recursive_refactor: [ast, exc]
recursive_refactor(node, s, depth) ==
    IF depth = s.max_depth THEN [ast |-> node, exc |-> ""]
    ELSE
    With(SelectLoop(s, max_count(count_expressions(node)), 1), LAMBDA pick :
    IF pick.exc # "" THEN [ast |-> node, exc |-> pick.exc]
    ELSE IF pick.stop THEN [ast |-> node, exc |-> ""]
    ELSE
    With(refactor_side(node, s, depth, pick, TRUE), LAMBDA left :
    IF left.exc # "" THEN [ast |-> node, exc |-> left.exc]
    ELSE
    With(refactor_side(node, s, depth, pick, FALSE), LAMBDA right :
    IF right.exc # "" THEN [ast |-> node, exc |-> right.exc]
    ELSE [ast |-> Branch(pick.expr, left.ast, right.ast), exc |-> ""])))

\* cache[name] of the dictionaries of compact and cache_expressions, kept as
\* a sequence of [name, node] entries
Lookup(entries, name) ==
    entries[CHOOSE i \in 1..Len(entries) : entries[i].name = name].node
Known(entries, name) == \E i \in 1..Len(entries) : entries[i].name = name

\* compact.repl_func
compact_repl_func(p, n, cache) ==
    With(compact_node_name(n), LAMBDA name :
        IF name.t # "NoneType" /\ Known(cache, name)
        THEN [ast |-> Lookup(cache, name), acc |-> cache]
        ELSE IF name.t # "NoneType"
        THEN [ast |-> n, acc |-> Append(cache, [name |-> name, node |-> n])]
        ELSE [ast |-> n, acc |-> cache])

\* compact.compact
compact(n) == tile(n, <<Pattern>>, compact_repl_func, <<>>).ast

\* "Operator" in name[0]
IsOperatorName(name) ==
    /\ name.t = "tuple"
    /\ InStr(<<79, 112, 101, 114, 97, 116, 111, 114>>, name.items[1].s)

\* counts[name] of cache_expressions, a sequence of [name, count] entries
CountOf(counts, name) ==
    IF \E i \in 1..Len(counts) : counts[i].name = name
    THEN counts[CHOOSE i \in 1..Len(counts) : counts[i].name = name].count
    ELSE 0

\* cache_expressions.count_func
cache_count_func(p, n, counts) ==
    With(compact_node_name(n), LAMBDA name :
        IF ~IsOperatorName(name) THEN [ast |-> n, acc |-> counts]
        ELSE IF CountOf(counts, name) > 0
        THEN [ast |-> n,
              acc |-> [i \in 1..Len(counts) |->
                          IF counts[i].name = name THEN [counts[i] EXCEPT !.count = @ + 1]
                          ELSE counts[i]]]
        ELSE [ast |-> n, acc |-> Append(counts, [name |-> name, count |-> 1])])

\* A repl_func that hands out the first cached node for every repeated name
cache_repl_func_first_replacement(counts, n, st) ==
    With(compact_node_name(n), LAMBDA name :
        IF name.t # "NoneType" /\ CountOf(counts, name) > 1
        THEN IF st.replacements # <<>>
             THEN [ast |-> st.replacements[1].node, acc |-> st]
             ELSE [ast |-> CachedNode(n, st.last_id),
                   acc |-> [replacements |-> Append(st.replacements,
                                                   [name |-> name,
                                                    node |-> CachedNode(n, st.last_id)]),
                            last_id |-> st.last_id + 1]]
        ELSE [ast |-> n, acc |-> st])

\* cache_expressions.repl_func; st holds replacements and state["last_id"]
cache_repl_func(counts, n, st) ==
    With(compact_node_name(n), LAMBDA name :
        IF name.t # "NoneType" /\ CountOf(counts, name) > 1
        THEN IF Known(st.replacements, name)
             THEN [ast |-> Lookup(st.replacements, name), acc |-> st]
             ELSE [ast |-> CachedNode(n, st.last_id),
                   acc |-> [replacements |-> Append(st.replacements,
                                                   [name |-> name,
                                                    node |-> CachedNode(n, st.last_id)]),
                            last_id |-> st.last_id + 1]]
        ELSE [ast |-> n, acc |-> st])

\* cache.cache_expressions; refactor drops the returned root, so a root
\* that was itself replaced stays as it was
cache_expressions(node) ==
    With(tile(node, <<Pattern>>, cache_count_func, <<>>).acc, LAMBDA counts :
    With(tile(node, <<Pattern>>, LAMBDA p, n, st : cache_repl_func(counts, n, st),
              [replacements |-> <<>>, last_id |-> 0]).ast, LAMBDA done :
    IF done.k = "CachedNode" /\ node.k # "CachedNode" THEN node ELSE done))

\* merge.refactor: [ast, exc]
refactor(tree, settings_arg) ==
    With(IF settings_arg.is_none THEN shallow ELSE settings_arg, LAMBDA s :
    With(IF s.static_rewrite THEN static_resolution(tree) ELSE tree, LAMBDA a1 :
    With(IF s.canonicalize THEN canonicalize(a1) ELSE a1, LAMBDA a2 :
    With(IF s.initial_optimize THEN optimize(a2, s.max_opt_pass, s.min_change) ELSE a2, LAMBDA a3 :
    With(IF s.refactor THEN recursive_refactor(a3, s, 0) ELSE [ast |-> a3, exc |-> ""], LAMBDA a4 :
    IF a4.exc # "" THEN [ast |-> NoneNode, exc |-> a4.exc]
    ELSE
    With(IF s.static_rewrite THEN static_resolution(a4.ast) ELSE a4.ast, LAMBDA a5 :
    With(IF s.compact THEN compact(a5) ELSE a5, LAMBDA a6 :
    [ast |-> IF s.cache_expr THEN cache_expressions(a6) ELSE a6, exc |-> ""])))))))

RECURSIVE MergeLevels(_)
\* the "while len(all_asts) > 1" loop of merge
MergeLevels(all_asts) ==
    IF Len(all_asts) <= 1 THEN all_asts[1]
    ELSE MergeLevels([x \in 1..((Len(all_asts) + 1) \div 2) |->
                         IF 2 * x > Len(all_asts) THEN all_asts[2 * x - 1]
                         ELSE Both(all_asts[2 * x - 1], all_asts[2 * x])])

\* merge as it would be if each Both took its pair the other way round
merge_right_first(preds, asts) ==
    MergeLevels([i \in 1..Len(preds) |->
                    PushResult(preds[Len(preds) + 1 - i], asts[preds[Len(preds) + 1 - i]])])

\* merge.merge(predicates) with asts[p] the ast of predicate p
merge(preds, asts) == MergeLevels([i \in 1..Len(preds) |-> PushResult(preds[i], asts[preds[i]])])

-----------------------------------------------------------------------------
(* Predicate (predicate.py) and the naive PredicateSet (set.py).  The      *)
(* parser is not modelled: a predicate is given with the tree the grammar  *)
(* builds for its text.                                                    *)

\* Predicate.__init__: the text and the parsed tree
Predicate(text, tree) == [predicate |-> Str(text), ast |-> tree]

RECURSIVE validate(_)
\* Node.validate: the children first, then the node's own _validate
validate(n) ==
    /\ HasLeft(n) => validate(n.left)
    /\ HasRight(n) => validate(n.right)
    /\ CASE n.k = "LogicalOperator" -> n.type \in {"and", "or"}
         [] n.k = "CompareOperator" -> n.type \in {">=", ">", "<", "<=", "=", "!=", "is"}
         [] n.k = "ContainsOperator" -> n.right.k \in {"Number", "Literal", "Constant"}
         [] n.k = "MatchOperator" -> n.right.k = "Regex"
         [] n.k = "Regex" -> n.value.t = "str"
         [] n.k = "Number" -> n.value.t = "float"
         [] n.k = "Constant" -> n.value \in {Bool(TRUE), Bool(FALSE), NoneV}
         [] OTHER -> TRUE

\* Predicate.is_valid.  The ast_validated cache is left out: validate is a
\* function of the tree, and a predicate's tree is cleared only by the
\* finalize of a set that validated it when it was added.
is_valid(p) == p.ast.k # "None" /\ validate(p.ast)

\* Predicate.evaluate of a valid predicate
PredicateEvaluate(p, document) == NodeEvaluate(p.ast, document, NoSink)

\* PredicateSet.update: [predicates, exc]
PredicateSetUpdate(preds_of_set, batch, objects) ==
    IF \E i \in 1..Len(batch) : ~is_valid(objects[batch[i]])
    THEN [predicates |-> preds_of_set, exc |-> "ValueError"]
    ELSE [predicates |-> preds_of_set \cup {batch[i] : i \in 1..Len(batch)}, exc |-> ""]

\* PredicateSet.evaluate: the matches (a list in the iteration order of a
\* Python set, which no caller may rely on), or the exception of the first
\* predicate whose evaluation raises
PredicateSetEvaluate(preds_of_set, objects, document) ==
    IF \E q \in preds_of_set : PredicateEvaluate(objects[q], document).ctx.exc # ""
    THEN [match |-> {}, exc |-> "raised"]
    ELSE [match |-> {q \in preds_of_set : PredicateEvaluate(objects[q], document).res},
          exc |-> ""]

-----------------------------------------------------------------------------
(* The predicates, documents and settings of the model *)

age == <<97, 103, 101>>
name_id == <<110, 97, 109, 101>>
other_id == <<111, 116, 104, 101, 114>>
quotedJ == <<39, 74, 39>>

\* age > 40
AgeOver == CompareOperator(">", Literal(age), Number(40))
\* age < 50
AgeUnder == CompareOperator("<", Literal(age), Number(50))
\* name is 'J'
NameIs == CompareOperator("is", Literal(name_id), Literal(quotedJ))

\* The Predicate objects the calls draw from; "bad" does not validate
Pool ==
    [p \in {"p1", "p2", "p3", "p4", "bad"} |->
        CASE p = "p1" -> Predicate(<<97, 103, 101, 32, 62, 32, 52, 48>>, AgeOver)
          [] p = "p2" -> Predicate(<<97, 103, 101, 32, 60, 32, 53, 48>>, AgeUnder)
          [] p = "p3" -> Predicate(<<110, 97, 109, 101, 32, 105, 115, 32, 39, 74, 39>>, NameIs)
          [] p = "p4" -> Predicate(<<110, 97, 109, 101, 32, 105, 115, 32, 39, 74, 39, 32, 97, 110, 100, 32, 97, 103, 101, 32, 62, 32, 52, 48>>,
                                   LogicalOperator("and", NameIs, AgeOver))
          [] p = "bad" -> Predicate(<<110, 97, 109, 101, 32, 109, 97, 116, 99, 104, 101, 115, 32, 111, 116, 104, 101, 114>>,
                                    MatchOperator(Literal(name_id), Literal(other_id)))]

\* The documents: {}, {"age": 45, "name": "J"}, {"age": 70, "name": ""}
Docs ==
    [d \in {"d0", "d1", "d2"} |->
        CASE d = "d0" -> <<>>
          [] d = "d1" -> (age :> Num(45)) @@ (name_id :> Str(<<74>>))
          [] d = "d2" -> (age :> Num(70)) @@ (name_id :> Str(<<>>))]

\* RefactorSettings(4, 2, 32, 1, 0.0): branch on any expression seen twice
Eager == RefactorSettings(4, 2, 32, 1, [num |-> 0, den |-> 1])

\* The largest membership and the longest update list the model draws
MaxSet == 2
MaxBatch == 2

\* The predicates the lists handed to update are made of, and those lists
BatchNames == {"p2", "p3", "bad"}
Batches == UNION {[1..n -> BatchNames] : n \in 0..MaxBatch}

\* list(self.predicates): every order of the set's iteration
Orders(e) == {q \in [1..Cardinality(e) -> e] : \A i, j \in 1..Cardinality(e) : q[i] = q[j] => i = j}

-----------------------------------------------------------------------------
(* OptimizedPredicateSet (set.py) *)

NoPredicates == [isNone |-> TRUE, s |-> {}]
PredicateSetOf(e) == [isNone |-> FALSE, s |-> e]

RECURSIVE ResolveShared(_)
\* What static_resolution leaves behind in the trees of the predicates:
\* dup shares the Literal objects (Literal.__deepcopy__ returns self), so the
\* static flag set on the merged tree shows in the predicate's own tree; a
\* LiteralSet is copied, its items are shared
ResolveShared(n) ==
    CASE n.k = "Literal" -> LiteralStaticResolve(n)
      [] n.k = "LiteralSet" ->
            [n EXCEPT !.value = FrozenSet({IF i.k = "Literal" THEN LiteralStaticResolve(i) ELSE i :
                                              i \in n.value.e})]
      [] HasLeft(n) /\ HasRight(n) ->
            [n EXCEPT !.left = ResolveShared(n.left), !.right = ResolveShared(n.right)]
      [] HasLeft(n) -> [n EXCEPT !.left = ResolveShared(n.left)]
      [] OTHER -> n

\* The settings refactor works with
EffectiveSettings == IF settings.is_none THEN shallow ELSE settings

\* OptimizedPredicateSet.compile_ast on an unfinalized set, with order the
\* list(self.predicates) it hands to merge: [ast, exc, order, member]
compile_ast_with(order) ==
    IF predicates.s = {}
    THEN [ast |-> ConstTrue, exc |-> "", order |-> <<>>, member |-> member]
    ELSE With(refactor(merge(order, [q \in DOMAIN member |-> member[q].ast]), settings),
              LAMBDA c :
                  [ast |-> IF c.exc # "" THEN ast ELSE c.ast,
                   exc |-> c.exc,
                   order |-> IF c.exc # "" THEN merge_order ELSE order,
                   member |-> IF EffectiveSettings.static_rewrite
                              THEN [q \in DOMAIN member |->
                                       IF q \in predicates.s
                                       THEN [member[q] EXCEPT !.ast = ResolveShared(@)]
                                       ELSE member[q]]
                              ELSE member])

\* "if self.ast is None: self.compile_ast()"
ensure_ast(order) ==
    IF ast.k # "None"
    THEN [ast |-> ast, exc |-> "", order |-> merge_order, member |-> member]
    ELSE compile_ast_with(order)

\* The orders a compile may meet; none is drawn when nothing is compiled
CompileOrders == IF ast.k = "None" THEN Orders(predicates.s) ELSE {merge_order}

\* update as it would be if a change of the membership left the compiled AST
\* in place
update_as_keeping_ast(op, preds) ==
    IF finalized
    THEN /\ ret' = [op |-> op, exc |-> "Exception"]
         /\ UNCHANGED <<predicates, ast, merge_order>>
    ELSE IF \E i \in 1..Len(preds) : ~is_valid(member[preds[i]])
    THEN /\ ret' = [op |-> op, exc |-> "ValueError"]
         /\ UNCHANGED <<predicates, ast, merge_order>>
    ELSE LET new == predicates.s \cup {preds[i] : i \in 1..Len(preds)} IN
         /\ Cardinality(new) <= MaxSet
         /\ predicates' = PredicateSetOf(new)
         /\ UNCHANGED <<ast, merge_order>>
         /\ ret' = [op |-> op, exc |-> ""]

\* update as it would be if each predicate were inserted as soon as it has
\* been validated: the valid ones before the first invalid one are in the
\* set when the error is raised
update_as_inserting_early(op, preds) ==
    IF finalized
    THEN /\ ret' = [op |-> op, exc |-> "Exception"]
         /\ UNCHANGED <<predicates, ast, merge_order>>
    ELSE LET bad_at == {i \in 1..Len(preds) : ~is_valid(member[preds[i]])}
             taken == {preds[i] : i \in {j \in 1..Len(preds) : \A b \in bad_at : j < b}}
             new == predicates.s \cup taken
         IN  /\ Cardinality(new) <= MaxSet
             /\ predicates' = PredicateSetOf(new)
             /\ ast' = IF Cardinality(new) # Cardinality(predicates.s) THEN NoneNode ELSE ast
             /\ UNCHANGED merge_order
             /\ ret' = [op |-> op, exc |-> IF bad_at = {} THEN "" ELSE "ValueError"]

\* OptimizedPredicateSet.update(preds); add(p) is update([p])
update_as(op, preds) ==
    IF finalized
    THEN /\ ret' = [op |-> op, exc |-> "Exception"]
         /\ UNCHANGED <<predicates, ast, merge_order>>
    ELSE IF \E i \in 1..Len(preds) : ~is_valid(member[preds[i]])
    THEN /\ ret' = [op |-> op, exc |-> "ValueError"]
         /\ UNCHANGED <<predicates, ast, merge_order>>
    ELSE LET new == predicates.s \cup {preds[i] : i \in 1..Len(preds)} IN
         /\ Cardinality(new) <= MaxSet
         /\ predicates' = PredicateSetOf(new)
         /\ ast' = IF Cardinality(new) # Cardinality(predicates.s) THEN NoneNode ELSE ast
         /\ UNCHANGED merge_order
         /\ ret' = [op |-> op, exc |-> ""]

add(q) ==
    /\ update_as("add", <<q>>)
    /\ UNCHANGED <<settings, finalized, member, threads, set_results, heap, probe>>

update(preds) ==
    /\ update_as("update", preds)
    /\ UNCHANGED <<settings, finalized, member, threads, set_results, heap, probe>>

\* OptimizedPredicateSet.compile_ast
compile_ast ==
    /\ IF finalized
       THEN /\ ret' = [op |-> "compile_ast", exc |-> "Exception"]
            /\ UNCHANGED <<ast, merge_order, member>>
       ELSE \E order \in Orders(predicates.s) :
            \E c \in {compile_ast_with(order)} :
               /\ ast' = c.ast
               /\ merge_order' = c.order
               /\ member' = c.member
               /\ ret' = [op |-> "compile_ast", exc |-> c.exc]
    /\ UNCHANGED <<settings, predicates, finalized, threads, set_results, heap, probe>>

\* self._results between calls: never assigned, None, or the list a call
\* that raised has left behind
ResultsUnset == [state |-> "unset", ref |-> 0]
ResultsNone == [state |-> "None", ref |-> 0]
ResultsList(r) == [state |-> "list", ref |-> r]

\* evaluate as it would be if the list of the call before were used again
\* instead of a new one
evaluate_reusing_results ==
    /\ \E order \in CompileOrders :
       \E c \in {ensure_ast(order)} :
          /\ ast' = c.ast
          /\ merge_order' = c.order
          /\ member' = c.member
          /\ \E d \in DOMAIN Docs :
             IF c.exc # ""
             THEN /\ ret' = [op |-> "evaluate", exc |-> c.exc, doc |-> d]
                  /\ UNCHANGED set_results
             ELSE \E r \in {NodeEvaluate(c.ast, Docs[d],
                                         [isNone |-> FALSE,
                                          preds |-> IF "results" \in DOMAIN ret
                                                    THEN ret.results ELSE <<>>])} :
                     IF r.ctx.exc # ""
                     THEN /\ ret' = [op |-> "evaluate", exc |-> r.ctx.exc, doc |-> d]
                          /\ set_results' = ResultsList(0)
                     ELSE /\ ret' = [op |-> "evaluate", exc |-> "", doc |-> d,
                                     results |-> r.ctx.results.preds]
                          /\ set_results' = ResultsNone
    /\ UNCHANGED <<settings, predicates, finalized, threads, heap, probe>>

\* OptimizedPredicateSet.evaluate(doc)
evaluate ==
    /\ \E order \in CompileOrders :
       \E c \in {ensure_ast(order)} :
          /\ ast' = c.ast
          /\ merge_order' = c.order
          /\ member' = c.member
          /\ \E d \in DOMAIN Docs :
             IF c.exc # ""
             THEN /\ ret' = [op |-> "evaluate", exc |-> c.exc, doc |-> d]
                  /\ UNCHANGED set_results
             ELSE \E r \in {NodeEvaluate(c.ast, Docs[d], NewSink)} :
                     IF r.ctx.exc # ""
                     THEN /\ ret' = [op |-> "evaluate", exc |-> r.ctx.exc, doc |-> d]
                          /\ set_results' = ResultsList(0)
                     ELSE /\ ret' = [op |-> "evaluate", exc |-> "", doc |-> d,
                                     results |-> r.ctx.results.preds]
                          /\ set_results' = ResultsNone
    /\ UNCHANGED <<settings, predicates, finalized, threads, heap, probe>>

\* OptimizedPredicateSet.analyze(document)
analyze ==
    /\ \E order \in CompileOrders :
       \E c \in {ensure_ast(order)} :
          /\ ast' = c.ast
          /\ merge_order' = c.order
          /\ member' = c.member
          /\ \E d \in DOMAIN Docs :
             IF c.exc # ""
             THEN /\ ret' = [op |-> "analyze", exc |-> c.exc, doc |-> d]
                  /\ UNCHANGED set_results
             ELSE \E r \in {NodeAnalyze(c.ast, Docs[d], NewSink)} :
                     IF r.ctx.exc # ""
                     THEN /\ ret' = [op |-> "analyze", exc |-> r.ctx.exc, doc |-> d]
                          /\ set_results' = ResultsList(0)
                     ELSE /\ ret' = [op |-> "analyze", exc |-> "", doc |-> d, res |-> r.res,
                                     results |-> r.ctx.results.preds, ctx |-> r.ctx]
                          /\ set_results' = ResultsNone
    /\ UNCHANGED <<settings, predicates, finalized, threads, heap, probe>>

RECURSIVE Name(_, _)
\* <Class>.name() without the position: the class, and what the class adds
Name(n, objects) ==
    CASE n.k \in {"LogicalOperator", "CompareOperator"} -> [cls |-> n.k, of |-> Str(Chars(n.type))]
      [] n.k \in {"Literal", "Number", "Constant", "Regex"} -> [cls |-> n.k, of |-> n.value]
      [] n.k = "PushResult" -> [cls |-> n.k, of |-> objects[n.pred].predicate]
      [] n.k \in {"Branch", "CachedNode"} -> [cls |-> n.k, of |-> Name(n.expr, objects)]
      [] OTHER -> [cls |-> n.k, of |-> NoneV]

RECURSIVE description(_, _, _, _)
\* Node.description(buf, depth, max_depth): the lines it adds, each with
\* its number of tabs
description(n, depth, max_depth, objects) ==
    IF max_depth # 0 /\ depth = max_depth THEN <<[pad |-> depth, dots |-> TRUE]>>
    ELSE <<[pad |-> depth, dots |-> FALSE, name |-> Name(n, objects)]>>
         \o (IF n.k \in {"Branch", "CachedNode"}
             THEN description(n.expr, depth + 1, max_depth + 2, objects) ELSE <<>>)
         \o (IF HasLeft(n) THEN description(n.left, depth + 1, max_depth, objects) ELSE <<>>)
         \o (IF HasRight(n) THEN description(n.right, depth + 1, max_depth, objects) ELSE <<>>)

\* OptimizedPredicateSet.description(max_depth)
set_description(max_depth) ==
    /\ \E order \in CompileOrders :
       \E c \in {ensure_ast(order)} :
          /\ ast' = c.ast
          /\ merge_order' = c.order
          /\ member' = c.member
          /\ ret' = IF c.exc # "" THEN [op |-> "description", exc |-> c.exc]
                    ELSE [op |-> "description", exc |-> "",
                          text |-> description(c.ast, 0, max_depth, c.member)]
    /\ UNCHANGED <<settings, predicates, finalized, threads, set_results, heap, probe>>

\* finalize as it would be if it purged the compiled AST with the rest
finalize_purging_ast ==
    /\ \E order \in CompileOrders :
       \E c \in {ensure_ast(order)} :
          /\ merge_order' = c.order
          /\ IF c.exc # ""
             THEN /\ ret' = [op |-> "finalize", exc |-> c.exc]
                  /\ ast' = c.ast
                  /\ member' = c.member
                  /\ UNCHANGED <<predicates, finalized>>
             ELSE IF predicates.isNone
             THEN /\ ret' = [op |-> "finalize", exc |-> "TypeError"]
                  /\ ast' = c.ast
                  /\ member' = c.member
                  /\ UNCHANGED <<predicates, finalized>>
             ELSE /\ ret' = [op |-> "finalize", exc |-> ""]
                  /\ ast' = NoneNode
                  /\ member' = [q \in DOMAIN member |->
                                   IF q \in predicates.s
                                   THEN [predicate |-> NoneV, ast |-> NoneNode]
                                   ELSE c.member[q]]
                  /\ predicates' = NoPredicates
                  /\ finalized' = TRUE
    /\ UNCHANGED <<settings, threads, set_results, heap, probe>>

\* OptimizedPredicateSet.finalize
finalize ==
    /\ \E order \in CompileOrders :
       \E c \in {ensure_ast(order)} :
          /\ ast' = c.ast
          /\ merge_order' = c.order
          /\ IF c.exc # ""
             THEN /\ ret' = [op |-> "finalize", exc |-> c.exc]
                  /\ member' = c.member
                  /\ UNCHANGED <<predicates, finalized>>
             ELSE IF predicates.isNone
             THEN /\ ret' = [op |-> "finalize", exc |-> "TypeError"]
                  /\ member' = c.member
                  /\ UNCHANGED <<predicates, finalized>>
             ELSE /\ ret' = [op |-> "finalize", exc |-> ""]
                  /\ member' = [q \in DOMAIN member |->
                                   IF q \in predicates.s
                                   THEN [predicate |-> NoneV, ast |-> NoneNode]
                                   ELSE c.member[q]]
                  /\ predicates' = NoPredicates
                  /\ finalized' = TRUE
    /\ UNCHANGED <<settings, threads, set_results, heap, probe>>

\* OptimizedPredicateSet.__init__; a constructor given preds goes on with
\* update(preds), which is the update action from here
Init ==
    /\ settings \in {NoSettings, Eager}
    /\ predicates = PredicateSetOf({})
    /\ ast = NoneNode
    /\ finalized = FALSE
    /\ member = Pool
    /\ merge_order = <<>>
    /\ ret = [op |-> "init", exc |-> ""]
    /\ threads = <<>>
    /\ set_results = ResultsUnset
    /\ heap = <<>>
    /\ probe = <<>>

Next ==
    \/ \E q \in DOMAIN Pool : add(q)
    \/ \E preds \in Batches : update(preds)
    \/ compile_ast
    \/ evaluate
    \/ analyze
    \/ \E max_depth \in {0, 2} : set_description(max_depth)
    \/ finalize

Spec == Init /\ [][Next]_vars

-----------------------------------------------------------------------------
(* Two evaluate calls on one compiled set, interleaved (set.py 90-107).    *)
(* A thread's own work (its EvalContext, the walk over the tree) is local; *)
(* what the threads share is the attribute self._results and the list      *)
(* objects it refers to.  heap[r] is the list object with reference r.     *)

Threads == {1, 2}

\* The matches evaluating document d pushes, in the order of the pushes
Pushes(d) == NodeEvaluate(ast, Docs[d], NewSink).ctx.results.preds

\* A call of evaluate(d) that has not started
NewCall(d) == [doc |-> d, pc |-> "call", results |-> 0, todo |-> <<>>, exc |-> ""]

\* "results = []; self._results = results", then self.ast.evaluate starts
install(t) ==
    /\ threads[t].pc = "call"
    /\ heap' = Append(heap, <<>>)
    /\ set_results' = ResultsList(Len(heap) + 1)
    /\ threads' = [threads EXCEPT ![t] = [@ EXCEPT !.pc = "evaluate",
                                                   !.results = Len(heap) + 1,
                                                   !.todo = Pushes(threads[t].doc)]]
    /\ UNCHANGED <<settings, predicates, ast, finalized, member, merge_order, ret, probe>>

\* PushResult.eval -> push_match: "self._results.append(match)" on whatever
\* self._results is at that moment
push(t) ==
    /\ threads[t].pc = "evaluate"
    /\ threads[t].todo # <<>>
    /\ IF set_results.state = "list"
       THEN /\ heap' = [heap EXCEPT ![set_results.ref] = Append(@, Head(threads[t].todo))]
            /\ threads' = [threads EXCEPT ![t] = [@ EXCEPT !.todo = Tail(@)]]
       ELSE /\ threads' = [threads EXCEPT ![t] = [@ EXCEPT !.pc = "raised",
                                                           !.exc = "AttributeError"]]
            /\ UNCHANGED heap
    /\ UNCHANGED <<settings, predicates, ast, finalized, member, merge_order, ret,
                   set_results, probe>>

\* "self._results = None" once self.ast.evaluate has returned
reset(t) ==
    /\ threads[t].pc = "evaluate"
    /\ threads[t].todo = <<>>
    /\ set_results' = ResultsNone
    /\ threads' = [threads EXCEPT ![t] = [@ EXCEPT !.pc = "return"]]
    /\ UNCHANGED <<settings, predicates, ast, finalized, member, merge_order, ret, heap, probe>>

\* "return results": the caller holds the list object from here on
return(t) ==
    /\ threads[t].pc = "return"
    /\ threads' = [threads EXCEPT ![t] = [@ EXCEPT !.pc = "done"]]
    /\ UNCHANGED <<settings, predicates, ast, finalized, member, merge_order, ret,
                   set_results, heap, probe>>

\* The sets the two calls run on, each compiled from one order of its members
ConcSets == {{"p1", "p2"}, {"p1", "p3"}, {"p3", "p4"}}

InitConc ==
    /\ settings \in {NoSettings, Eager}
    /\ \E e \in ConcSets :
          /\ predicates = PredicateSetOf(e)
          /\ merge_order \in Orders(e)
          /\ member = [q \in DOMAIN Pool |->
                          IF q \in e THEN [Pool[q] EXCEPT !.ast = ResolveShared(@)]
                          ELSE Pool[q]]
    /\ ast = refactor(merge(merge_order, [q \in DOMAIN Pool |-> Pool[q].ast]), settings).ast
    /\ finalized = FALSE
    /\ ret = [op |-> "compile_ast", exc |-> ""]
    /\ threads \in [Threads -> {NewCall(d) : d \in DOMAIN Docs}]
    /\ set_results = ResultsUnset
    /\ heap = <<>>
    /\ probe = <<>>

NextConc ==
    \/ \E t \in Threads : install(t)
    \/ \E t \in Threads : push(t)
    \/ \E t \in Threads : reset(t)
    \/ \E t \in Threads : return(t)

SpecConc == InitConc /\ [][NextConc]_vars

-----------------------------------------------------------------------------
(* CompareOperator.eval on its own (ast.py 264-288): one comparison of two *)
(* operands, each an Undefined node, an Empty node, or a literal the       *)
(* document gives a value to (or none: it resolves to Undefined)           *)

CompareOps == {">=", ">", "<", "<=", "=", "!=", "is"}

\* What an operand evaluates to
OperandValues ==
    {Undefined, Empty, Num(0), Num(1), Str(<<>>), Str(<<97>>), List(<<>>), List(<<Num(1)>>),
     SetV({}), SetV({Num(1)}), Bool(FALSE), NoneV}

\* How an operand comes about: the node, and the document entry behind it
Operands ==
    {[kind |-> "node", v |-> Undefined], [kind |-> "node", v |-> Empty],
     [kind |-> "missing", v |-> Undefined]}
    \cup {[kind |-> "document", v |-> v] : v \in OperandValues \ {Undefined, Empty}}

left_id == <<108>>
right_id == <<114>>

OperandNode(o, ident) ==
    IF o.kind = "node" THEN (IF o.v = Undefined THEN UndefinedNode ELSE EmptyNode)
    ELSE Literal(ident)

OperandDoc(o, ident) == IF o.kind = "document" THEN (ident :> o.v) ELSE <<>>

\* One evaluation of "left <op> right"
compare_eval ==
    /\ probe.stage = "in"
    /\ \E r \in {Eval(CompareOperator(probe.op, OperandNode(probe.left, left_id),
                                      OperandNode(probe.right, right_id)),
                      EvalContext(OperandDoc(probe.left, left_id)
                                  @@ OperandDoc(probe.right, right_id), FALSE, NoSink))} :
          probe' = [probe EXCEPT !.stage = "out", !.res = r.v, !.exc = r.ctx.exc]
    /\ UNCHANGED <<settings, predicates, ast, finalized, member, merge_order, ret, threads,
                   set_results, heap>>

InitCompare ==
    /\ settings = NoSettings
    /\ predicates = PredicateSetOf({})
    /\ ast = NoneNode
    /\ finalized = FALSE
    /\ member = Pool
    /\ merge_order = <<>>
    /\ ret = [op |-> "init", exc |-> ""]
    /\ threads = <<>>
    /\ set_results = ResultsUnset
    /\ heap = <<>>
    /\ probe \in [op : CompareOps, left : Operands, right : Operands,
                  stage : {"in"}, res : {NoneV}, exc : {""}]

NextCompare == compare_eval

SpecCompare == InitCompare /\ [][NextCompare]_vars

-----------------------------------------------------------------------------
(* compare.canonicalize on its own, applied once and once more *)

\* 'J' and 'K', statically resolved, as static_resolution leaves them
StaticJ == LiteralStaticResolve(Literal(quotedJ))
StaticK == LiteralStaticResolve(Literal(<<39, 75, 39>>))

CanonOperands ==
    {Literal(age), Literal(name_id), StaticJ, StaticK, Number(40), Constant(Bool(TRUE))}

Compares == {CompareOperator(op, l, r) : op \in CompareOps, l \in CanonOperands, r \in CanonOperands}

\* The trees canonicalize is given: a comparison, its negation, and a
\* conjunction and a Both of two comparisons
CanonTrees ==
    Compares
    \cup {NegateOperator(c) : c \in Compares}
    \cup {LogicalOperator("and", c, CompareOperator(">", Number(40), Literal(age))) : c \in Compares}
    \cup {Both(PushResult("p1", CompareOperator("is", StaticJ, Literal(name_id))), PushResult("p2", c)) :
             c \in Compares}

canonicalize_step ==
    /\ probe.stage \in {0, 1}
    /\ probe' = IF probe.stage = 0
                THEN [probe EXCEPT !.stage = 1, !.once = canonicalize(probe.tree)]
                ELSE [probe EXCEPT !.stage = 2, !.twice = canonicalize(probe.once)]
    /\ UNCHANGED <<settings, predicates, ast, finalized, member, merge_order, ret, threads,
                   set_results, heap>>

InitCanon ==
    /\ settings = NoSettings
    /\ predicates = PredicateSetOf({})
    /\ ast = NoneNode
    /\ finalized = FALSE
    /\ member = Pool
    /\ merge_order = <<>>
    /\ ret = [op |-> "init", exc |-> ""]
    /\ threads = <<>>
    /\ set_results = ResultsUnset
    /\ heap = <<>>
    /\ probe \in [tree : CanonTrees, stage : {0}, once : {NoneNode}, twice : {NoneNode}]

NextCanon == canonicalize_step

SpecCanon == InitCanon /\ [][NextCanon]_vars

-----------------------------------------------------------------------------
(* Properties *)

\* The elements of a list, and a list without repetitions
Elements(q) == {q[i] : i \in 1..Len(q)}
NoDuplicates(q) == \A i, j \in 1..Len(q) : q[i] = q[j] => i = j

\* The place of x in the list q
Position(q, x) == CHOOSE k \in 1..Len(q) : q[k] = x

RECURSIVE PushedBy(_)
\* The predicates the PushResult nodes of a tree can push
PushedBy(n) ==
    (IF n.k = "PushResult" THEN {n.pred} ELSE {})
    \cup (IF n.k \in {"Branch", "CachedNode"} THEN PushedBy(n.expr) ELSE {})
    \cup (IF HasLeft(n) THEN PushedBy(n.left) ELSE {})
    \cup (IF HasRight(n) THEN PushedBy(n.right) ELSE {})

RECURSIVE PushCount(_, _)
\* How many PushResult nodes of a tree push predicate q
PushCount(n, q) ==
    (IF n.k = "PushResult" /\ n.pred = q THEN 1 ELSE 0)
    + (IF HasLeft(n) THEN PushCount(n.left, q) ELSE 0)
    + (IF HasRight(n) THEN PushCount(n.right, q) ELSE 0)

\* C1: for every set of valid predicates and every document, also one in
\* which identifiers are missing (Undefined) or hold empty values, the
\* optimized set's evaluate returns the same set of predicates as the naive
\* PredicateSet's evaluate on the same predicates.
C1_OptimizedEqualsNaive ==
    (ret.op = "evaluate" /\ ret.exc = "" /\ ~finalized)
        => Elements(ret.results) = PredicateSetEvaluate(predicates.s, member, Docs[ret.doc]).match

\* C2: when two evaluate calls on one compiled set are interleaved at any
\* point, no call fails and each call that has returned holds exactly the
\* matches of its own document: none lost, none of the other call's.
C2_EachCallItsOwnMatches ==
    \A t \in Threads :
        /\ threads[t].exc = ""
        /\ threads[t].pc = "done" => heap[threads[t].results] = Pushes(threads[t].doc)

\* C3: finalize is terminal.  From a finalized set every further call leaves
\* the set finalized and the compiled AST the one finalize left; add, update
\* and compile_ast fail with an error and change nothing; evaluate succeeds
\* and returns what evaluating that AST on the document pushes.
C3_FinalizeTerminal ==
    [][finalized =>
          /\ finalized'
          /\ ast' = ast
          /\ (ret'.op \in {"add", "update", "compile_ast"})
                => (ret'.exc # "" /\ UNCHANGED <<predicates, member, merge_order>>)
          /\ (ret'.op = "evaluate")
                => (/\ ret'.exc = ""
                    /\ ret'.results = NodeEvaluate(ast, Docs[ret'.doc], NewSink).ctx.results.preds
                    /\ Elements(ret'.results) \subseteq Elements(merge_order))
    ]_vars

\* A finalized set has answered an evaluate with matches
C3_Witness == finalized /\ ret.op = "evaluate" /\ ret.exc = "" /\ ret.results # <<>>

\* On an unfinalized set the compiled AST is absent or was compiled from
\* exactly the current membership
CompiledFromMembership ==
    \/ ast.k = "None"
    \/ /\ Elements(merge_order) = predicates.s
       /\ Len(merge_order) = Cardinality(predicates.s)
       /\ PushedBy(ast) = predicates.s

\* C4: on an unfinalized set, after any sequence of calls, the compiled AST
\* is absent or compiled from exactly the current membership; an add/update
\* that changes the membership clears it, one that adds only members leaves
\* it in place, and an evaluate leaves an AST compiled from the membership,
\* so that every member can be pushed as a match.
C4_CompiledAstTracksMembership ==
    /\ [](~finalized => CompiledFromMembership)
    /\ [][(~finalized /\ ret'.op \in {"add", "update"} /\ ret'.exc = "" /\ predicates' # predicates)
              => ast'.k = "None"]_vars
    /\ [][(~finalized /\ ret'.op \in {"add", "update"} /\ ret'.exc = "" /\ predicates' = predicates)
              => ast' = ast]_vars
    /\ [][(~finalized /\ ret'.op = "evaluate" /\ ret'.exc = "")
              => (ast'.k # "None" /\ PushedBy(ast') = predicates.s)]_vars

\* An add has changed the membership of a set compiled before, and has
\* cleared the compiled AST
C4_Witness ==
    /\ ~finalized /\ ret.op = "add" /\ ret.exc = ""
    /\ ast.k = "None" /\ merge_order # <<>> /\ Elements(merge_order) # predicates.s

\* Some element of the list is not a valid predicate
HasInvalid(preds) == \E i \in 1..Len(preds) : ~is_valid(member[preds[i]])

\* C5 as stated: add(p) and update(preds) with an invalid predicate fail with
\* InvalidPredicate, nothing is inserted and the compiled AST is unchanged.
C5_FailsWithInvalidPredicate ==
    [][/\ \A preds \in Batches :
             (HasInvalid(preds) /\ update(preds))
                => (ret'.exc = "InvalidPredicate" /\ UNCHANGED <<predicates, ast>>)
       /\ \A q \in DOMAIN Pool :
             (HasInvalid(<<q>>) /\ add(q))
                => (ret'.exc = "InvalidPredicate" /\ UNCHANGED <<predicates, ast>>)
    ]_vars

\* C5, amended: on a set that is not finalized, add(p) and update(preds) with
\* an invalid predicate fail with ValueError; none of the given predicates
\* has been inserted, also not the valid ones before the invalid one, and
\* the compiled AST is unchanged.
C5_FailsWithValueError ==
    [][/\ \A preds \in Batches :
             (~finalized /\ HasInvalid(preds) /\ update(preds))
                => (ret'.exc = "ValueError" /\ UNCHANGED <<predicates, ast>>)
       /\ \A q \in DOMAIN Pool :
             (~finalized /\ HasInvalid(<<q>>) /\ add(q))
                => (ret'.exc = "ValueError" /\ UNCHANGED <<predicates, ast>>)
    ]_vars

\* An update has failed on a set with members and a compiled AST
C5_Witness ==
    /\ ret.op = "update" /\ ret.exc = "ValueError"
    /\ ~finalized /\ predicates.s # {} /\ ast.k # "None"

\* C6: the list an evaluate or analyze call returns holds what the
\* PushResult nodes push during that call and nothing from an earlier call,
\* and holds no predicate more than once, also when a predicate was given
\* twice and when Branch expansion has copied its PushResult into both sides.
C6_ResultsOfThisCallOnly ==
    (ret.op \in {"evaluate", "analyze"} /\ ret.exc = "")
        => /\ ret.results = Pushes(ret.doc)
           /\ NoDuplicates(ret.results)
           /\ finalized \/ Elements(ret.results) \subseteq predicates.s

\* A call has returned a predicate whose PushResult is in the tree twice
C6_Witness ==
    /\ ret.op \in {"evaluate", "analyze"} /\ ret.exc = ""
    /\ \E q \in Elements(ret.results) : PushCount(ast, q) > 1

\* C7: the matches come in the order of the list merge was given: of two
\* predicates in the result, the one earlier in that list is the earlier
\* in the result, whatever the refactoring did to the tree.
C7_ResultsFollowMergeOrder ==
    (ret.op = "evaluate" /\ ret.exc = "")
        => \A i, j \in 1..Len(ret.results) :
              i < j => Position(merge_order, ret.results[i]) < Position(merge_order, ret.results[j])

\* Two matches have come out of a tree that Branch expansion has rebuilt
C7_Witness ==
    /\ ret.op = "evaluate" /\ ret.exc = ""
    /\ Len(ret.results) >= 2 /\ ast.k = "Branch"

\* The classes whose eval is wrapped by failure_info
Traced == {"LogicalOperator", "NegateOperator", "CompareOperator", "ContainsOperator",
           "MatchOperator", "PushResult", "Branch", "Both"}

RECURSIVE FailedEvaluations(_, _)
\* How many times, while node is evaluated in ctx without tracing, the eval
\* of a traced class comes out falsy (a cached falsy result of a traced
\* expression counted at each hit): the entries a trace of the evaluation
\* itself consists of
FailedEvaluations(node, ctx) ==
    LET Outcome(n, c) == Eval(n, c).v
        Onward(n, c) == Eval(n, c).ctx
        first == IF HasLeft(node) THEN FailedEvaluations(node.left, ctx) ELSE 0
        second == FailedEvaluations(node.right, Onward(node.left, ctx))
        inner ==
            CASE node.k \in {"CompareOperator", "Both"} -> first + second
              [] node.k = "LogicalOperator" ->
                    first + (IF (node.type = "and") = PyTruthy(Outcome(node.left, ctx))
                             THEN second ELSE 0)
              [] node.k = "ContainsOperator" ->
                    first + (IF HasContains(Outcome(node.left, ctx)) THEN second ELSE 0)
              [] node.k = "MatchOperator" ->
                    first + (IF Outcome(node.left, ctx).t = "str" THEN second ELSE 0)
              [] node.k = "Branch" ->
                    FailedEvaluations(node.expr, ctx)
                    + (IF PyTruthy(Outcome(node.expr, ctx)) /\ NodeTruthy(node.left)
                       THEN FailedEvaluations(node.left, Onward(node.expr, ctx))
                       ELSE IF NodeTruthy(node.right)
                       THEN FailedEvaluations(node.right, Onward(node.expr, ctx))
                       ELSE 0)
              [] node.k = "CachedNode" ->
                    IF node.cache_id \in DOMAIN ctx.cached_res
                    THEN (IF ~PyTruthy(ctx.cached_res[node.cache_id]) /\ node.expr.k \in Traced
                          THEN 1 ELSE 0)
                    ELSE FailedEvaluations(node.expr, ctx)
              [] OTHER -> first
    IN  inner + (IF node.k \in Traced /\ ~PyTruthy(Outcome(node, ctx)) THEN 1 ELSE 0)

\* C9: tracing does not change the outcome.  analyze returns the matches of
\* evaluate in the same order and the truth value of the root; the
\* re-evaluations inside the failure_info routines push no match and append
\* no entry to ctx.failed (its entries are those of the evaluation itself),
\* and ctx.analyze is what it was at the start once they return.
C9_TracingKeepsOutcome ==
    (ret.op = "analyze" /\ ret.exc = "")
        => /\ ret.results = NodeEvaluate(ast, Docs[ret.doc], NewSink).ctx.results.preds
           /\ ret.res = NodeEvaluate(ast, Docs[ret.doc], NewSink).res
           /\ ret.ctx.analyze
           /\ Len(ret.ctx.failed) = FailedEvaluations(ast, EvalContext(Docs[ret.doc], FALSE, NewSink))

\* An analyze has traced a failure whose routine re-evaluates a traced
\* sub-expression that fails, next to a predicate that matches
C9_Witness ==
    /\ ret.op = "analyze" /\ ret.exc = ""
    /\ ret.results # <<>>
    /\ Len(ret.ctx.failed) >= 2

\* The values of length zero
ZeroLength == {Str(<<>>), List(<<>>), SetV({})}

\* The comparison has come out true, or false, without an error
CompareTrue == probe.exc = "" /\ probe.res = Bool(TRUE)
CompareFalse == probe.exc = "" /\ probe.res = Bool(FALSE)

C10_CanonicalizeIdempotent == probe.stage = 2 => probe.twice = probe.once

\* canonicalize has been applied twice to a tree the first application
\* has changed
C10_Witness == probe.stage = 2 /\ probe.once # probe.tree

-----------------------------------------------------------------------------
(* optimizer.optimize on its own (optimizer.py 13-23), one pass of its     *)
(* while loop at a time                                                     *)

\* The largest max_pass the model draws
MaxPass == 4

\* The set and the two evaluate calls, not in use while a function is
\* applied on its own
SetIdle ==
    /\ settings = NoSettings
    /\ predicates = PredicateSetOf({})
    /\ ast = NoneNode
    /\ finalized = FALSE
    /\ member = Pool
    /\ merge_order = <<>>
    /\ ret = [op |-> "init", exc |-> ""]
    /\ threads = <<>>
    /\ set_results = ResultsUnset
    /\ heap = <<>>

\* The trees optimize is given: constants and a literal under up to three
\* levels of operators
OptLeaves == {ConstTrue, ConstFalse, Literal(age)}
OptInner ==
    {NegateOperator(a) : a \in OptLeaves}
    \cup {LogicalOperator(op, a, b) : op \in {"and", "or"}, a \in OptLeaves, b \in OptLeaves}
    \cup {ContainsOperator(LiteralSet({}), Literal(age)), ContainsOperator(EmptyNode, Literal(age))}
OptOuter ==
    {NegateOperator(a) : a \in OptInner}
    \cup {LogicalOperator(op, a, Literal(name_id)) : op \in {"and", "or"}, a \in OptInner}
    \cup {LogicalOperator("or", NegateOperator(a), ConstFalse) : a \in OptInner}
OptTrees ==
    OptInner \cup OptOuter
    \cup {PushResult("p1", a) : a \in OptOuter}
    \cup {Both(PushResult("p1", a), PushResult("p2", Literal(age))) : a \in OptOuter}
    \cup {Both(PushResult("p1", a), PushResult("p2", NegateOperator(a))) : a \in OptInner}
    \cup {Branch(c, PushResult("p1", a), n) :
             c \in {ConstTrue, ConstFalse, Literal(age)}, a \in OptInner,
             n \in {NoneNode, PushResult("p2", ConstTrue)}}
    \cup {Branch(c, PushResult("p1", Literal(age)), PushResult("p2", Literal(name_id))) :
             c \in OptInner}

\* One turn of "while passes < max_pass and changes >= min_change"
optimize_pass ==
    /\ probe.pc = "loop"
    /\ probe.passes < probe.max_pass
    /\ probe.changes >= probe.min_change
    /\ \E r \in {optimization_pass(probe.node)} :
          probe' = [probe EXCEPT !.node = r.ast, !.changes = r.changes,
                                 !.passes = @ + 1, !.counts = Append(@, r.changes)]
    /\ UNCHANGED <<settings, predicates, ast, finalized, member, merge_order, ret, threads,
                   set_results, heap>>

\* The loop condition fails: "return node"
optimize_return ==
    /\ probe.pc = "loop"
    /\ ~(probe.passes < probe.max_pass /\ probe.changes >= probe.min_change)
    /\ probe' = [probe EXCEPT !.pc = "returned"]
    /\ UNCHANGED <<settings, predicates, ast, finalized, member, merge_order, ret, threads,
                   set_results, heap>>

\* optimize(tree, max_pass, min_change = 1) has been called: "changes =
\* min_change; passes = 0"
InitOptimize ==
    /\ SetIdle
    /\ \E t \in OptTrees, m \in 0..MaxPass :
          probe = [tree |-> t, max_pass |-> m, min_change |-> 1, node |-> t,
                   changes |-> 1, passes |-> 0, counts |-> <<>>, pc |-> "loop"]

NextOptimize == optimize_pass \/ optimize_return

SpecOptimize == InitOptimize /\ [][NextOptimize]_vars

RECURSIVE Nodes(_)
\* The nodes of a tree
Nodes(n) ==
    {n} \cup (IF n.k \in {"Branch", "CachedNode"} THEN Nodes(n.expr) ELSE {})
        \cup (IF HasLeft(n) THEN Nodes(n.left) ELSE {})
        \cup (IF HasRight(n) THEN Nodes(n.right) ELSE {})

\* Some peephole pattern matches some node of the tree
PeepholeMatches(tree) ==
    \E n \in Nodes(tree), i \in 1..Len(optimization_patterns) :
        n.k # "None" /\ matches(optimization_patterns[i].pattern, n)

RECURSIVE Visited(_)
\* The nodes tile visits: the node, then its left and its right (tiler.py 146-155)
Visited(n) ==
    {n} \cup (IF HasLeft(n) THEN Visited(n.left) ELSE {})
        \cup (IF HasRight(n) THEN Visited(n.right) ELSE {})

\* Some peephole pattern matches some node that tile visits
VisitedMatches(tree) ==
    \E n \in Visited(tree), i \in 1..Len(optimization_patterns) :
        n.k # "None" /\ matches(optimization_patterns[i].pattern, n)

\* When optimize has returned: it made each pass but the last with changes,
\* and stopped at max_pass passes or after a pass without a change
OptimizeStopped ==
    /\ probe.node = optimize(probe.tree, probe.max_pass, 1)
    /\ \A i \in 1..(probe.passes - 1) : probe.counts[i] > 0
    /\ probe.passes = probe.max_pass \/ probe.counts[probe.passes] = 0

\* optimize stopped because its last pass made no change
StoppedUnchanged == probe.passes > 0 /\ probe.counts[probe.passes] = 0

\* C11 as stated: optimize(node, max_pass, min_change = 1) stops after the
\* first pass that makes no change or after max_pass passes, whichever comes
\* first; when it stops because a pass made no change, no peephole pattern
\* matches any node of the tree it returns, and it returns that tree for
\* every larger max_pass.
C11_OptimizeStopsAtFixpoint ==
    probe.pc = "returned" =>
        /\ OptimizeStopped
        /\ StoppedUnchanged =>
              /\ ~PeepholeMatches(probe.node)
              /\ \A m \in probe.max_pass..(MaxPass + 2) : optimize(probe.tree, m, 1) = probe.node

\* C11 amended: optimize(node, max_pass, min_change = 1) stops after the
\* first pass that makes no change or after max_pass passes, whichever comes
\* first; when it stops because a pass made no change, no peephole pattern
\* matches any node of the returned tree that is reached through left and
\* right links (the condition of a Branch is not looked into), and it
\* returns that tree for every larger max_pass.
C11_OptimizeStopsAtTiledFixpoint ==
    probe.pc = "returned" =>
        /\ OptimizeStopped
        /\ StoppedUnchanged =>
              /\ ~VisitedMatches(probe.node)
              /\ \A m \in probe.max_pass..(MaxPass + 2) : optimize(probe.tree, m, 1) = probe.node

\* optimize has stopped before max_pass, on the third pass, which made no
\* change to a tree the passes before it have changed
C11_Witness ==
    /\ probe.pc = "returned" /\ probe.passes = 3 /\ probe.passes < probe.max_pass
    /\ probe.counts[3] = 0 /\ probe.node # probe.tree

-----------------------------------------------------------------------------
(* compact.compact followed by cache.cache_expressions, as refactor calls  *)
(* them (merge.py 160-165), and the evaluation of the tree before and after *)

\* set contains age, over a set of two numbers
AgeIn == ContainsOperator(LiteralSet({Number(45), Number(70)}), Literal(age))

CacheBase == {AgeOver, AgeUnder, NameIs, AgeIn}
CacheExprs ==
    CacheBase \cup {NegateOperator(a) : a \in CacheBase}
              \cup {LogicalOperator(op, a, b) : op \in {"and", "or"}, a, b \in CacheBase}
CacheFew ==
    {AgeOver, AgeUnder, NameIs, NegateOperator(AgeOver),
     LogicalOperator("and", AgeOver, NameIs), LogicalOperator("or", AgeUnder, NameIs),
     LogicalOperator("and", NameIs, AgeOver)}

\* Merged predicates, with and without a Branch above them
CacheTrees ==
    {Both(PushResult("p1", a), PushResult("p2", b)) : a, b \in CacheExprs}
    \cup {Both(Both(PushResult("p1", a), PushResult("p2", b)), PushResult("p3", c)) :
             a, b, c \in CacheFew}
    \cup {Branch(e, Both(PushResult("p1", a), PushResult("p2", b)),
                 IF r THEN Both(PushResult("p1", a), PushResult("p3", a)) ELSE NoneNode) :
             e \in {AgeOver, NameIs}, a, b \in CacheFew, r \in BOOLEAN}

\* compact.compact(ast)
cache_compact ==
    /\ probe.pc = "tree"
    /\ \E c \in {compact(probe.node)} :
          probe' = [probe EXCEPT !.node = c, !.pc = "compacted"]
    /\ UNCHANGED <<settings, predicates, ast, finalized, member, merge_order, ret,
                   threads, set_results, heap>>

\* cache.cache_expressions(ast)
cache_insert ==
    /\ probe.pc = "compacted"
    /\ \E c \in {cache_expressions(probe.node)} :
          probe' = [probe EXCEPT !.node = c, !.pc = "cached"]
    /\ UNCHANGED <<settings, predicates, ast, finalized, member, merge_order, ret,
                   threads, set_results, heap>>

\* ast.evaluate(set, document) of the tree as it was and of the tree as it is
cache_evaluate ==
    /\ probe.pc = "cached"
    /\ \E d \in DOMAIN Docs :
       \E b \in {NodeEvaluate(probe.tree, Docs[d], NewSink)} :
       \E a \in {NodeEvaluate(probe.node, Docs[d], NewSink)} :
          probe' = [probe EXCEPT !.doc = d, !.before = b, !.after = a, !.pc = "evaluated"]
    /\ UNCHANGED <<settings, predicates, ast, finalized, member, merge_order, ret,
                   threads, set_results, heap>>

InitCache ==
    /\ SetIdle
    /\ \E t \in CacheTrees :
          probe = [tree |-> t, node |-> t, doc |-> "", before |-> NoneV, after |-> NoneV,
                   pc |-> "tree"]

NextCache == cache_compact \/ cache_insert \/ cache_evaluate

SpecCache == InitCache /\ [][NextCache]_vars

RECURSIVE Occurrences(_, _)
\* How many times a node is reached from the root
Occurrences(n, tree) ==
    (IF tree = n THEN 1 ELSE 0)
    + (IF tree.k = "Branch" THEN Occurrences(n, tree.expr) ELSE 0)
    + (IF HasLeft(tree) THEN Occurrences(n, tree.left) ELSE 0)
    + (IF HasRight(tree) THEN Occurrences(n, tree.right) ELSE 0)

\* C12: compaction followed by cache insertion preserves semantics: for every
\* tree of merged predicates and every document, evaluating the tree after
\* compact and cache_expressions gives the same truth value and the same
\* pushed matches as evaluating it before, also when a cached expression is
\* false and when one CachedNode is reached from several parents.
C12_CompactAndCachePreserve ==
    probe.pc = "evaluated" =>
        /\ probe.after.res = probe.before.res
        /\ probe.after.ctx.results = probe.before.ctx.results
        /\ probe.after.ctx.exc = probe.before.ctx.exc

\* A CachedNode that two parents reach has been evaluated to false, was
\* then found in the cache, and another predicate has been pushed
C12_Witness ==
    /\ probe.pc = "evaluated"
    /\ \E c \in Nodes(probe.node) :
          /\ c.k = "CachedNode"
          /\ Occurrences(c, probe.node) > 1
          /\ c.cache_id \in DOMAIN probe.after.ctx.cached_res
          /\ probe.after.ctx.cached_res[c.cache_id] = Bool(FALSE)
    /\ probe.after.ctx.cache_hits > 0
    /\ probe.after.ctx.results.preds # <<>>

-----------------------------------------------------------------------------
(* compare.order_rewrite applied to one sibling of a pivot, and the values *)
(* of the pivot, the sibling and the rewritten sibling under a document    *)

OrderOps == {"<", "<=", ">", ">="}
\* The numbers on the right of the pivot and of the sibling
MaxNum == 3
OrderNums == 1..MaxNum
\* Right sides: numbers, the identifier name and the identifier other
OrderRights == {Number(n) : n \in OrderNums} \cup {Literal(name_id), Literal(other_id)}
OrderPivots == {CompareOperator(op, Literal(age), r) : op \in OrderOps, r \in OrderRights}
\* What a document holds for an identifier; "missing" resolves to Undefined
OrderValues == {Num(n) : n \in 0..(MaxNum + 1)} \cup {Empty}
OrderHeld == OrderValues \cup {NoneV}
OrderDoc(l, v) ==
    [i \in (IF l = NoneV THEN {} ELSE {age}) \cup (IF v = NoneV THEN {} ELSE {name_id, other_id}) |->
        IF i = age THEN l ELSE v]

\* order_rewrite(sibling, name, pivot, assumed)
order_rewrite_step ==
    /\ probe.pc = "pivot"
    /\ \E r \in {order_rewrite(probe.sibling, merge_node_name(probe.expr, TRUE),
                               probe.expr, probe.assumed)} :
          probe' = [probe EXCEPT !.out = r.ast, !.pc = "rewritten"]
    /\ UNCHANGED <<settings, predicates, ast, finalized, member, merge_order, ret,
                   threads, set_results, heap>>

\* The pivot, the sibling and what took the sibling's place, evaluated
\* against one document
order_evaluate ==
    /\ probe.pc = "rewritten"
    /\ \E l \in OrderHeld, v \in OrderHeld :
       \E d \in {OrderDoc(l, v)} :
          probe' = [probe EXCEPT !.doc = d,
                                 !.pivot_res = NodeEvaluate(probe.expr, d, NewSink).res,
                                 !.sibling_res = NodeEvaluate(probe.sibling, d, NewSink).res,
                                 !.out_res = NodeEvaluate(probe.out, d, NewSink).res,
                                 !.pc = "evaluated"]
    /\ UNCHANGED <<settings, predicates, ast, finalized, member, merge_order, ret,
                   threads, set_results, heap>>

InitOrder ==
    /\ SetIdle
    /\ \E e \in OrderPivots, a \in BOOLEAN, op \in OrderOps, r \in OrderRights :
          probe = [expr |-> e, assumed |-> a, sibling |-> CompareOperator(op, Literal(age), r),
                   out |-> NoneNode, doc |-> <<>>, pivot_res |-> FALSE, sibling_res |-> FALSE,
                   out_res |-> FALSE, pc |-> "pivot"]

NextOrder == order_rewrite_step \/ order_evaluate

SpecOrder == InitOrder /\ [][NextOrder]_vars

\* The document gives the pivot the assumed result
PivotAsAssumed == probe.pc = "evaluated" /\ probe.pivot_res = probe.assumed

\* C13: order rewrite on numeric pivots is sound: for every pivot L op n,
\* every assumed result A and every sibling L op' m, a sibling replaced by
\* Constant(k) evaluates to k for every value of L for which the pivot
\* evaluates to A, Undefined and Empty included; otherwise the sibling is
\* left unchanged.
C13_NumericOrderRewriteSound ==
    (PivotAsAssumed /\ probe.expr.right.k = "Number" /\ probe.sibling.right.k = "Number") =>
        IF probe.out.k = "Constant"
        THEN probe.sibling_res = probe.out.value.b
        ELSE probe.out = probe.sibling

\* The documents the probe draws from
OrderDocs == {OrderDoc(l, v) : l \in OrderHeld, v \in OrderHeld}

\* Every document that gives the pivot the assumed result gives the sibling k
OrderDetermined(k) ==
    \A d \in OrderDocs :
        NodeEvaluate(probe.expr, d, NewSink).res = probe.assumed
            => NodeEvaluate(probe.sibling, d, NewSink).res = k

\* C14: order rewrite on non-numeric pivots is sound: for a pivot L op V with
\* V a non-numeric literal, every assumed result A and every sibling L op' V
\* with the same right side, a sibling replaced by Constant(k) evaluates to k
\* for all values of L and V for which the pivot evaluates to A, a sibling
\* whose value the assumption does not determine is left unchanged, and a
\* sibling with another right side is never rewritten.
C14_LiteralOrderRewriteSound ==
    (probe.pc = "evaluated" /\ probe.expr.right.k = "Literal" /\ probe.sibling.right.k = "Literal") =>
        IF probe.sibling.right # probe.expr.right
        THEN probe.out = probe.sibling
        ELSE /\ (PivotAsAssumed /\ probe.out.k = "Constant")
                    => probe.sibling_res = probe.out.value.b
             /\ ~(OrderDetermined(TRUE) \/ OrderDetermined(FALSE))
                    => probe.out = probe.sibling

-----------------------------------------------------------------------------
(* compare.equality_rewrite applied to one sibling of a pivot              *)

\* "J" in double quotes and the empty string, statically resolved
StaticJd == LiteralStaticResolve(Literal(<<34, 74, 34>>))
StaticNone == LiteralStaticResolve(Literal(<<39, 39>>))
EqualityOps == {"=", "is", "!="}
EqualityRights == {StaticJ, StaticJd, StaticK, StaticNone, Literal(other_id), Literal(age)}
\* What a document holds for an identifier; NoneV: it does not hold it
EqualityHeld == {NoneV, Str(<<74>>), Str(<<75>>), Str(<<>>)}
EqualityDoc(n, o, a) ==
    [i \in (IF n = NoneV THEN {} ELSE {name_id}) \cup (IF o = NoneV THEN {} ELSE {other_id})
           \cup (IF a = NoneV THEN {} ELSE {age}) |->
        IF i = name_id THEN n ELSE IF i = other_id THEN o ELSE a]

\* equality_rewrite(sibling, name, pivot, assumed)
equality_rewrite_step ==
    /\ probe.pc = "pivot"
    /\ \E r \in {equality_rewrite(probe.sibling, merge_node_name(probe.expr, TRUE),
                                  probe.expr, probe.assumed)} :
          probe' = [probe EXCEPT !.out = r.ast, !.pc = "rewritten"]
    /\ UNCHANGED <<settings, predicates, ast, finalized, member, merge_order, ret,
                   threads, set_results, heap>>

\* The pivot, the sibling and what took the sibling's place, evaluated
\* against one document
equality_evaluate ==
    /\ probe.pc = "rewritten"
    /\ \E n \in EqualityHeld, o \in EqualityHeld, a \in EqualityHeld :
       \E d \in {EqualityDoc(n, o, a)} :
          probe' = [probe EXCEPT !.doc = d,
                                 !.pivot_res = NodeEvaluate(probe.expr, d, NewSink).res,
                                 !.sibling_res = NodeEvaluate(probe.sibling, d, NewSink).res,
                                 !.out_res = NodeEvaluate(probe.out, d, NewSink).res,
                                 !.pc = "evaluated"]
    /\ UNCHANGED <<settings, predicates, ast, finalized, member, merge_order, ret,
                   threads, set_results, heap>>

InitEquality ==
    /\ SetIdle
    /\ \E op \in EqualityOps, v \in EqualityRights, a \in BOOLEAN,
          op2 \in EqualityOps, v2 \in EqualityRights :
          probe = [expr |-> CompareOperator(op, Literal(name_id), v), assumed |-> a,
                   sibling |-> CompareOperator(op2, Literal(name_id), v2),
                   out |-> NoneNode, doc |-> <<>>, pivot_res |-> FALSE, sibling_res |-> FALSE,
                   out_res |-> FALSE, pc |-> "pivot"]

NextEquality == equality_rewrite_step \/ equality_evaluate

SpecEquality == InitEquality /\ [][NextEquality]_vars

\* The constant the claim's cases give for the sibling, the sibling itself
\* in every other case
EqualityCases ==
    LET known == (probe.expr.type \in EQUALITY) = probe.assumed
        same == probe.sibling.right = probe.expr.right
        equality == probe.sibling.type \in EQUALITY
    IN  IF known /\ probe.expr.right.static /\ probe.sibling.right.static
        THEN Constant(Bool(equality = same))
        ELSE IF same THEN Constant(Bool(equality = known))
        ELSE probe.sibling

\* C15: equality rewrite is sound: for a pivot L op V (op in =, is, !=) with
\* assumed result A and known = ((op is = or is) = A), a sibling L op' V' is
\* replaced by a constant only when V and V' are both static and known is
\* true, giving the constant of (V = V') under op', or when V' equals V,
\* giving known for an equality op' and not known for !=; every other
\* sibling is left unchanged, and each constant equals the sibling's value
\* under every document in which the pivot evaluates to A.
C15_EqualityRewriteSound ==
    probe.pc = "evaluated" =>
        /\ probe.out = EqualityCases
        /\ (PivotAsAssumed /\ probe.out.k = "Constant")
              => probe.sibling_res = probe.out.value.b

-----------------------------------------------------------------------------
(* contains.contains_rewrite applied to one sibling of a pivot, between    *)
(* the two static resolutions of refactor (merge.py 139-140 and 155-157)   *)

\* The items the sets are made of: three numbers and an identifier
MaxItem == 3
ContainsItems == {Number(n) : n \in 1..MaxItem} \cup {Literal(other_id)}
\* What a document holds for an identifier; NoneV: it does not hold it
ContainsHeld == {NoneV} \cup {Num(n) : n \in 1..(MaxItem + 1)}
ContainsDoc(x, o) ==
    [i \in (IF x = NoneV THEN {} ELSE {age}) \cup (IF o = NoneV THEN {} ELSE {other_id}) |->
        IF i = age THEN x ELSE o]

\* <set> contains age, statically resolved when refactor runs with static_rewrite
ContainsAge(items, static) ==
    IF static THEN static_resolution(ContainsOperator(LiteralSet(items), Literal(age)))
    ELSE ContainsOperator(LiteralSet(items), Literal(age))

\* contains_rewrite(sibling, name, pivot, assumed)
contains_rewrite_step ==
    /\ probe.pc = "pivot"
    /\ \E r \in {contains_rewrite(probe.sibling, merge_node_name(probe.expr, FALSE),
                                  probe.expr, probe.assumed)} :
          probe' = [probe EXCEPT !.out = r.ast, !.pc = "rewritten"]
    /\ UNCHANGED <<settings, predicates, ast, finalized, member, merge_order, ret,
                   threads, set_results, heap>>

\* The second static resolution of refactor, "since literal sets may have changed"
contains_resolve ==
    /\ probe.pc = "rewritten"
    /\ probe.static
    /\ \E r \in {static_resolution(probe.out)} :
          probe' = [probe EXCEPT !.final = r, !.pc = "resolved"]
    /\ UNCHANGED <<settings, predicates, ast, finalized, member, merge_order, ret,
                   threads, set_results, heap>>

\* Without static_rewrite the rewritten tree is the final one
contains_keep ==
    /\ probe.pc = "rewritten"
    /\ ~probe.static
    /\ probe' = [probe EXCEPT !.final = probe.out, !.pc = "resolved"]
    /\ UNCHANGED <<settings, predicates, ast, finalized, member, merge_order, ret,
                   threads, set_results, heap>>

\* The pivot, the sibling and what took the sibling's place, evaluated
\* against one document
contains_evaluate ==
    /\ probe.pc = "resolved"
    /\ \E x \in ContainsHeld, o \in ContainsHeld :
       \E d \in {ContainsDoc(x, o)} :
          probe' = [probe EXCEPT !.doc = d,
                                 !.pivot_res = NodeEvaluate(probe.expr, d, NewSink).res,
                                 !.sibling_res = NodeEvaluate(probe.sibling, d, NewSink).res,
                                 !.out_res = NodeEvaluate(probe.final, d, NewSink).res,
                                 !.pc = "evaluated"]
    /\ UNCHANGED <<settings, predicates, ast, finalized, member, merge_order, ret,
                   threads, set_results, heap>>

InitContains ==
    /\ SetIdle
    /\ \E s \in SUBSET ContainsItems \ {{}}, t \in SUBSET ContainsItems,
          a \in BOOLEAN, static \in BOOLEAN :
          probe = [expr |-> ContainsAge(s, static), assumed |-> a, static |-> static,
                   sibling |-> ContainsAge(t, static),
                   out |-> NoneNode, final |-> NoneNode, doc |-> <<>>, pivot_res |-> FALSE,
                   sibling_res |-> FALSE, out_res |-> FALSE, pc |-> "pivot"]

NextContains == contains_rewrite_step \/ contains_resolve \/ contains_keep \/ contains_evaluate

SpecContains == InitContains /\ [][NextContains]_vars

\* C16: contains rewrite is sound: for every pivot set S, sibling set T,
\* tested value X and assumed result A, the node that contains_rewrite leaves
\* in place of "T contains X" (a Constant, the same test on a shrunk set, or
\* the negation of a test on another set, which the tiler visits again
\* under the new NegateOperator) has the truth value of "T contains X"
\* whenever (X in S) equals A.
C16_ContainsRewriteSound ==
    PivotAsAssumed => probe.out_res = probe.sibling_res

\* The node is "<the set of these items> contains X", X the tested value
\* of the sibling
TestsItems(n, items) ==
    /\ n.k = "ContainsOperator"
    /\ n.left.k = "LiteralSet"
    /\ n.left.value.e = items
    /\ n.right = probe.sibling.right

\* The case contains_rewrite has selected under assumed true, for the pivot
\* set s and the sibling set t, when the set it weighs against s \cap t and
\* negates the test on is diff
ContainsCase(s, t, diff) ==
    IF s \subseteq t THEN probe.out = ConstTrue
    ELSE IF s \cap t = {} THEN probe.out = ConstFalse
    ELSE IF Cardinality(diff) < Cardinality(s \cap t)
    THEN probe.out.k = "NegateOperator" /\ TestsItems(probe.out.left, diff)
    ELSE TestsItems(probe.out, t \cap s)

\* C17 as stated: contains rewrite under assumed true selects its case as
\* follows for pivot set S and sibling set T: S subset of T gives
\* Constant(true); S and T disjoint gives Constant(false); otherwise, if
\* |T \ S| < |S \cap T| the sibling becomes not (LiteralSet(T \ S) contains X);
\* otherwise T is replaced by T \cap S.
C17_ContainsCasesSiblingDifference ==
    (probe.pc = "rewritten" /\ probe.assumed) =>
        ContainsCase(probe.expr.left.value.e, probe.sibling.left.value.e,
                     probe.sibling.left.value.e \ probe.expr.left.value.e)

\* C17 amended: contains rewrite under assumed true selects its case as
\* follows for pivot set S and sibling set T: S subset of T gives
\* Constant(true); S and T disjoint gives Constant(false); otherwise, if
\* |S \ T| < |S \cap T| the sibling becomes not (LiteralSet(S \ T) contains X);
\* otherwise T is replaced by T \cap S.
C17_ContainsCasesPivotDifference ==
    (probe.pc = "rewritten" /\ probe.assumed) =>
        ContainsCase(probe.expr.left.value.e, probe.sibling.left.value.e,
                     probe.expr.left.value.e \ probe.sibling.left.value.e)

\* Under assumed true the sibling has become the negation of a test on
\* S \ T, which is not the set T \ S
C17_Witness ==
    /\ probe.pc = "rewritten" /\ probe.assumed
    /\ probe.out.k = "NegateOperator"
    /\ probe.sibling.left.value.e \ probe.expr.left.value.e
          # probe.expr.left.value.e \ probe.sibling.left.value.e

-----------------------------------------------------------------------------
(* compare.select_rewrite_expression on lists of candidate comparisons     *)

\* The longest list of candidates
MaxCands == 4
StaticL == LiteralStaticResolve(Literal(<<39, 76, 39>>))
\* The families of candidates: equalities on numbers, order on numbers, order
\* on quoted strings, order on identifiers
SelectFamilies ==
    <<{CompareOperator(op, Literal(age), Number(n)) : op \in {"=", "!="}, n \in 1..3},
      {CompareOperator(op, Literal(age), Number(n)) : op \in {"<", ">"}, n \in 1..3},
      {CompareOperator(">", Literal(name_id), v) : v \in {StaticJ, StaticK, StaticL}},
      {CompareOperator(op, Literal(age), v) : op \in {"<", ">"},
                                             v \in {Literal(name_id), Literal(other_id)}}>>
CandidateLists ==
    UNION {[1..n -> SelectFamilies[f]] : n \in 1..MaxCands, f \in 1..Len(SelectFamilies)}

\* select_rewrite_expression(name, exprs), name the name of the first candidate
compare_select_step ==
    /\ probe.pc = "candidates"
    /\ \E r \in {compare_select_rewrite_expression(merge_node_name(probe.exprs[1], TRUE),
                                                   probe.exprs)} :
          probe' = [probe EXCEPT !.selected = r, !.pc = "selected"]
    /\ UNCHANGED <<settings, predicates, ast, finalized, member, merge_order, ret,
                   threads, set_results, heap>>

InitSelect ==
    /\ SetIdle
    /\ \E l \in CandidateLists :
          probe = [exprs |-> l, selected |-> Selected(NoneNode), pc |-> "candidates"]

NextSelect == compare_select_step

SpecSelect == InitSelect /\ [][NextSelect]_vars

\* How many candidates have this right-side value
Frequency(v) == Cardinality({i \in 1..Len(probe.exprs) : ValueEq(probe.exprs[i].right.value, v)})
MostFrequent(v) == \A i \in 1..Len(probe.exprs) : Frequency(probe.exprs[i].right.value) <= Frequency(v)
\* At most half of the candidates' values are below v and at most half above
IsMedian(v) ==
    /\ 2 * Cardinality({i \in 1..Len(probe.exprs) : PyLess(probe.exprs[i].right.value, v)})
          <= Len(probe.exprs)
    /\ 2 * Cardinality({i \in 1..Len(probe.exprs) : PyLess(v, probe.exprs[i].right.value)})
          <= Len(probe.exprs)

\* C18: compare.select_rewrite_expression returns one of the candidates: for
\* an equality name, one whose right-side value is a most frequent one among
\* the candidates; for an order name with numeric right sides, one whose
\* right-side value is the median of the candidates' values; for an order
\* name with non-numeric right sides, one with the most frequent right-side
\* value.
C18_CompareSelectsModeOrMedian ==
    probe.pc = "selected" =>
        /\ probe.selected.exc = ""
        /\ \E i \in 1..Len(probe.exprs) : probe.selected.expr = probe.exprs[i]
        /\ IF probe.exprs[1].type \in {"=", "is", "!="}
           THEN MostFrequent(probe.selected.expr.right.value)
           ELSE IF probe.exprs[1].right.k = "Number"
           THEN IsMedian(probe.selected.expr.right.value)
           ELSE MostFrequent(probe.selected.expr.right.value)

-----------------------------------------------------------------------------
(* contains.select_rewrite_expression on lists of candidate set tests      *)

\* The longest list of sets and the items the sets are made of
MaxSets == 3
SetNumbers == 1..3
SetCandidates ==
    {ContainsOperator(LiteralSet({Number(n) : n \in s}), Literal(age)) :
        s \in SUBSET SetNumbers \ {{}}}
SetLists == UNION {[1..n -> SetCandidates] : n \in 1..MaxSets}
\* settings.min_density: 0.0 and 0.29
Densities == {[num |-> 0, den |-> 1], [num |-> 29, den |-> 100]}

\* select_rewrite_expression(settings, name, exprs)
contains_select_step ==
    /\ probe.pc = "candidates"
    /\ \E r \in {contains_select_rewrite_expression(
                     RefactorSettings(4, 2, 32, 1, probe.min_density),
                     merge_node_name(probe.exprs[1], FALSE), probe.exprs)} :
          probe' = [probe EXCEPT !.selected = r, !.pc = "selected"]
    /\ UNCHANGED <<settings, predicates, ast, finalized, member, merge_order, ret,
                   threads, set_results, heap>>

InitSetSelect ==
    /\ SetIdle
    /\ \E l \in SetLists, d \in Densities :
          probe = [exprs |-> l, min_density |-> d, selected |-> Selected(NoneNode),
                   pc |-> "candidates"]

NextSetSelect == contains_select_step

SpecSetSelect == InitSetSelect /\ [][NextSetSelect]_vars

\* The score of the i-th candidate as a fraction: the harmonic mean of
\* counts[item] / total over the items of its set
Score(i) ==
    LET sets == [j \in 1..Len(probe.exprs) |-> probe.exprs[j].left.value.e]
        total == SumSeq([j \in 1..Len(sets) |-> Cardinality(sets[j])])
        items == SetToSeq(sets[i])
        cs == [j \in 1..Len(items) |-> Cardinality({k \in 1..Len(sets) : items[j] \in sets[k]})]
        inv == [j \in 1..Len(cs) |-> ProdSeq([k \in 1..Len(cs) |-> IF k = j THEN 1 ELSE cs[k]])]
    IN  [num |-> Len(cs) * ProdSeq(cs), den |-> total * SumSeq(inv)]
ScoreBelow(a, b) == a.num * b.den < b.num * a.den
HighestScore(i) == \A j \in 1..Len(probe.exprs) : ~ScoreBelow(Score(i), Score(j))

\* C19: contains.select_rewrite_expression returns the candidate whose set
\* has the highest score (harmonic mean of its elements' frequencies over
\* all candidate sets), whatever its position in the list, and returns no
\* pivot exactly when that highest score is below settings.min_density.
C19_ContainsSelectsHighestScore ==
    probe.pc = "selected" =>
        /\ probe.selected.exc = ""
        /\ IF \E i \in 1..Len(probe.exprs) :
                  HighestScore(i) /\ ScoreBelow(Score(i), probe.min_density)
           THEN probe.selected.expr = NoneNode
           ELSE \E i \in 1..Len(probe.exprs) :
                    HighestScore(i) /\ probe.selected.expr = probe.exprs[i]

-----------------------------------------------------------------------------
(* Branch.eval (ast.py 672-682) and the dead-branch rewrite of the         *)
(* optimizer (optimizer.py 187-204) on one Branch and one document         *)

\* Conditions: constants, an identifier, and comparisons inside a CachedNode,
\* whose hits and misses count the evaluations
BranchExprs == {ConstTrue, ConstFalse, Literal(age), CachedNode(AgeOver, 0), CachedNode(NameIs, 0)}
BranchChildren(p) == {NoneNode} \cup {PushResult(p, e) : e \in {ConstTrue, ConstFalse, AgeUnder}}
Branches == {Branch(e, l, r) : e \in BranchExprs, l \in BranchChildren("p1"), r \in BranchChildren("p2")}

\* What an evaluation shows: truth value, pushed matches, PushResult nodes
\* reached, CachedNode lookups
Observed(e) ==
    [res |-> e.res, preds |-> e.ctx.results.preds, reach |-> e.ctx.reach,
     lookups |-> e.ctx.cache_hits + e.ctx.cache_misses]

\* branch.evaluate(set, document)
branch_evaluate ==
    /\ probe.pc = "branch"
    /\ \E d \in DOMAIN Docs :
       \E e \in {NodeEvaluate(probe.branch, Docs[d], NewSink)} :
          probe' = [probe EXCEPT !.doc = d, !.seen = Observed(e), !.pc = "evaluated"]
    /\ UNCHANGED <<settings, predicates, ast, finalized, member, merge_order, ret,
                   threads, set_results, heap>>

\* DeadBranchPattern matches and its replacement is evaluated
branch_rewrite ==
    /\ probe.pc = "evaluated"
    /\ matches([p |-> "DeadBranchPattern"], probe.branch)
    /\ \E r \in {DeadBranchReplacement(probe.branch)} :
       \E e \in {NodeEvaluate(r, Docs[probe.doc], NewSink)} :
          probe' = [probe EXCEPT !.rewritten = r, !.rewritten_seen = Observed(e),
                                 !.pc = "rewritten"]
    /\ UNCHANGED <<settings, predicates, ast, finalized, member, merge_order, ret,
                   threads, set_results, heap>>

InitBranch ==
    /\ SetIdle
    /\ \E b \in Branches :
          probe = [branch |-> b, doc |-> "", seen |-> NoneV, rewritten |-> NoneNode,
                   rewritten_seen |-> NoneV, pc |-> "branch"]

NextBranch == branch_evaluate \/ branch_rewrite

SpecBranch == InitBranch /\ [][NextBranch]_vars

\* The child that the truthiness of expr selects under the probe's document
SelectedChild ==
    IF NodeEvaluate(probe.branch.expr, Docs[probe.doc], NewSink).res
    THEN probe.branch.left ELSE probe.branch.right

\* What evaluating only the selected child shows; false and nothing pushed
\* or reached when that child is absent
SelectedOnly ==
    IF SelectedChild.k = "None" THEN [res |-> FALSE, preds |-> <<>>, reach |-> 0]
    ELSE LET e == NodeEvaluate(SelectedChild, Docs[probe.doc], NewSink)
         IN  [res |-> e.res, preds |-> e.ctx.results.preds, reach |-> e.ctx.reach]

Shows(seen, only) ==
    seen.res = only.res /\ seen.preds = only.preds /\ seen.reach = only.reach

\* C20: Branch.eval evaluates expr exactly once and then evaluates only the
\* child that the truthiness of expr selects; when that child is absent the
\* result is false and the other child is not evaluated (none of its
\* PushResult nodes fires), and the dead-branch rewrite of
\* Branch(const c, t, f) produces the same.
C20_BranchEvaluatesSelectedChild ==
    probe.pc \in {"evaluated", "rewritten"} =>
        /\ probe.branch.expr.k = "CachedNode" => probe.seen.lookups = 1
        /\ Shows(probe.seen, SelectedOnly)
        /\ probe.pc = "rewritten" => Shows(probe.rewritten_seen, SelectedOnly)

-----------------------------------------------------------------------------
(* CachedNode.eval (ast.py 751-766): repeated evaluations of one cache_id  *)
(* inside one EvalContext                                                   *)

MaxEvals == 3

\* Wrapped children: the operator nodes that cache_expressions wraps, a
\* PushResult (whose evaluations show in ctx.reach and in the pushed
\* matches), and leaves as the unit tests wrap them
CachedChildren ==
    {AgeOver, AgeUnder, NameIs, NegateOperator(Literal(age)),
     PushResult("p1", AgeOver), PushResult("p1", ConstFalse),
     ConstTrue, ConstFalse, Literal(age)}

\* Documents, one of them with a null field
CachedDocs == ("dn" :> (age :> NoneV)) @@ Docs

\* node.eval(ctx) on the CachedNode of the probe's child, in the probe's ctx
cached_eval ==
    /\ probe.pc = "ctx"
    /\ Len(probe.vals) < MaxEvals
    /\ probe.ctx.exc = ""
    /\ \E r \in {Eval(CachedNode(probe.child, 0), probe.ctx)} :
          probe' = [probe EXCEPT !.ctx = r.ctx, !.vals = Append(@, r.v)]
    /\ UNCHANGED <<settings, predicates, ast, finalized, member, merge_order, ret,
                   threads, set_results, heap>>

\* The context is dropped at the end of evaluate / analyze
cached_done ==
    /\ probe.pc = "ctx"
    /\ Len(probe.vals) > 0
    /\ probe' = [probe EXCEPT !.pc = "done"]
    /\ UNCHANGED <<settings, predicates, ast, finalized, member, merge_order, ret,
                   threads, set_results, heap>>

InitCached ==
    /\ SetIdle
    /\ \E c \in CachedChildren, d \in DOMAIN CachedDocs, a \in BOOLEAN :
          probe = [child |-> c, ctx |-> EvalContext(CachedDocs[d], a, NewSink),
                   vals |-> <<>>, pc |-> "ctx"]

NextCached == cached_eval \/ cached_done

SpecCached == InitCached /\ [][NextCached]_vars

\* C21: within one EvalContext, over any sequence of evaluations of
\* CachedNodes that share a cache_id, the child is evaluated at most once,
\* every evaluation returns the value of the first one (also when it is
\* false), cache_hits + cache_misses is the number of evaluations, and
\* cache_misses counts only evaluations of the child.
C21_CachedNodeEvaluatesChildOnce ==
    probe.ctx.exc = "" =>
        /\ probe.ctx.cache_misses <= 1
        /\ probe.child.k = "PushResult" =>
              /\ probe.ctx.reach = probe.ctx.cache_misses
              /\ Len(probe.ctx.results.preds) <= 1
        /\ \A i \in 1..Len(probe.vals) : probe.vals[i] = probe.vals[1]
        /\ probe.ctx.cache_hits + probe.ctx.cache_misses = Len(probe.vals)

-----------------------------------------------------------------------------
(* Literal.eval (ast.py 455-469) in one evaluation of a compiled set whose *)
(* identifiers are resolved by callables that never answer twice the same  *)

\* {age, other} contains age: a set that has to resolve its items
AgeInOwn == ContainsOperator(LiteralSet({Literal(age), Literal(other_id)}), Literal(age))

ResolveExprs ==
    {AgeOver, AgeUnder, NameIs, NegateOperator(Literal(age)), AgeInOwn,
     LogicalOperator("and", AgeOver, AgeUnder),
     LogicalOperator("or", NameIs, AgeUnder),
     CompareOperator("=", Literal(age), Literal(name_id))}

\* Two or three predicates
ResolveBatches ==
    {<<a, b>> : a, b \in ResolveExprs}
    \cup {<<AgeOver, b, c>> : b, c \in ResolveExprs}

ResolveNames == <<"p1", "p2", "p3">>

\* set_resolver(name, callable): the k-th resolution of the evaluation
\* answers base + step * (k - 1)
Clock(base, step) == [base |-> base, step |-> step]
Resolvers ==
    {(age :> Clock(30, 30)),
     (age :> Clock(45, 25)) @@ (name_id :> Clock(0, 1)),
     (age :> Clock(60, -20)) @@ (name_id :> Clock(45, 0)) @@ (other_id :> Clock(60, -20))}

ResolveDocs == {<<>>, (name_id :> Str(<<74>>))}

\* What an evaluation leaves behind
Outcome(r) ==
    [v |-> r.v, preds |-> r.ctx.results.preds, failed |-> r.ctx.failed,
     literals |-> r.ctx.literals, exc |-> r.ctx.exc]

\* compile_ast: merge and refactor of the batch
resolve_compile ==
    /\ probe.pc = "batch"
    /\ \E m \in {merge(SubSeq(ResolveNames, 1, Len(probe.batch)),
                       [p \in {ResolveNames[j] : j \in 1..Len(probe.batch)} |->
                           probe.batch[Position(ResolveNames, p)]])} :
       \E r \in {refactor(m, Eager)} :
          /\ r.exc = ""
          /\ probe' = [probe EXCEPT !.merged = m, !.ast = r.ast, !.pc = "compiled"]
    /\ UNCHANGED <<settings, predicates, ast, finalized, member, merge_order, ret,
                   threads, set_results, heap>>

\* evaluate(doc) / analyze(doc) of the set: one EvalContext
resolve_evaluate ==
    /\ probe.pc = "compiled"
    /\ \E a \in BOOLEAN, d \in ResolveDocs, rs \in Resolvers :
       \E r \in {Eval(probe.ast, [EvalContext(d, a, NewSink) EXCEPT !.resolvers = rs])} :
          probe' = [probe EXCEPT !.ctx = r.ctx, !.seen = Outcome(r), !.pc = "evaluated"]
    /\ UNCHANGED <<settings, predicates, ast, finalized, member, merge_order, ret,
                   threads, set_results, heap>>

InitResolve ==
    /\ SetIdle
    /\ \E b \in ResolveBatches :
          probe = [batch |-> b, merged |-> NoneNode, ast |-> NoneNode,
                   ctx |-> NoneV, seen |-> NoneV, pc |-> "batch"]

NextResolve == resolve_compile \/ resolve_evaluate

SpecResolve == InitResolve /\ [][NextResolve]_vars

\* The document in which every name that was resolved holds the value of its
\* first resolution
FirstResolutions(ctx) ==
    [n \in DOMAIN ctx.doc \cup Elements(ctx.calls) |->
        IF n \in Elements(ctx.calls)
        THEN ContextResolve([ctx EXCEPT !.calls = SubSeq(ctx.calls, 1, Position(ctx.calls, n) - 1)], n)
        ELSE ctx.doc[n]]

\* C22: within one evaluation of a compiled set the identifier resolver is
\* invoked at most once per distinct literal name, and every occurrence of
\* the name (in any predicate, in either branch, in the re-evaluations of
\* failure_info) yields the value of that first resolution: the evaluation
\* ends as it does on the document that holds those first values.
C22_LiteralResolvedOnce ==
    probe.pc = "evaluated" =>
        /\ NoDuplicates(probe.ctx.calls)
        /\ probe.seen = Outcome(Eval(probe.ast,
                                     EvalContext(FirstResolutions(probe.ctx),
                                                 probe.ctx._analyze, NewSink)))

\* Both names were resolved by their clocks in a traced evaluation of a
\* Branch that pushed a match and recorded a failure
C22_Witness ==
    /\ probe.pc = "evaluated"
    /\ probe.ast.k = "Branch"
    /\ probe.ctx._analyze
    /\ Len(probe.ctx.calls) >= 2
    /\ Len(probe.seen.preds) > 0
    /\ Len(probe.seen.failed) > 0

-----------------------------------------------------------------------------
(* CompareOperator.reverse (ast.py 254-262), alone and as canonicalize     *)
(* applies it (compare.py 26-45), against the evaluation of the comparison *)

ReverseNode == CompareOperator(probe.op, OperandNode(probe.left, left_id),
                               OperandNode(probe.right, right_id))

\* n.reverse()
reverse_step ==
    /\ probe.stage = "in"
    /\ \E n \in {reverse(ReverseNode)} :
          probe' = [probe EXCEPT !.stage = "reversed", !.node = n]
    /\ UNCHANGED <<settings, predicates, ast, finalized, member, merge_order, ret, threads,
                   set_results, heap>>

\* canonicalize(n)
reverse_canonicalize ==
    /\ probe.stage = "in"
    /\ \E n \in {canonicalize(ReverseNode)} :
          probe' = [probe EXCEPT !.stage = "canonical", !.node = n]
    /\ UNCHANGED <<settings, predicates, ast, finalized, member, merge_order, ret, threads,
                   set_results, heap>>

\* The comparison as written and as rewritten, evaluated on the same document
reverse_evaluate ==
    /\ probe.stage \in {"reversed", "canonical"}
    /\ \E d \in {OperandDoc(probe.left, left_id) @@ OperandDoc(probe.right, right_id)} :
       \E b \in {Eval(ReverseNode, EvalContext(d, FALSE, NoSink))} :
       \E a \in {Eval(probe.node, EvalContext(d, FALSE, NoSink))} :
          probe' = [probe EXCEPT !.stage = "out", !.via = probe.stage,
                                 !.res = b.v, !.exc = b.ctx.exc,
                                 !.rev_res = a.v, !.rev_exc = a.ctx.exc]
    /\ UNCHANGED <<settings, predicates, ast, finalized, member, merge_order, ret, threads,
                   set_results, heap>>

InitReverse ==
    /\ SetIdle
    /\ probe \in [op : CompareOps, left : Operands, right : Operands,
                  stage : {"in"}, via : {""}, node : {NoneNode},
                  res : {NoneV}, exc : {""}, rev_res : {NoneV}, rev_exc : {""}]

NextReverse == reverse_step \/ reverse_canonicalize \/ reverse_evaluate

SpecReverse == InitReverse /\ [][NextReverse]_vars

\* C23: reversing a comparison does not change its evaluation: for every
\* operator and every pair of operand values (numbers, strings, empty
\* collections, Undefined, Empty) the comparison and the node that reverse()
\* leaves (operands swapped, operator replaced by its symmetric inverse)
\* evaluate alike, so canonicalize preserves the result of the predicate.
C23_ReversePreservesEvaluation ==
    probe.stage = "out" =>
        /\ probe.rev_exc = probe.exc
        /\ probe.rev_res = probe.res

-----------------------------------------------------------------------------
(* merge.count_expressions (merge.py 283-307): tile with the counting      *)
(* patterns over a tree of merged predicates                               *)

\* age and name, a Logical node whose two operands are Literals
AgeAndName == LogicalOperator("and", Literal(age), Literal(name_id))

CountExprs ==
    {AgeOver, AgeUnder, NameIs, AgeIn, NegateOperator(Literal(age)), AgeAndName,
     LogicalOperator("or", Literal(name_id), Literal(age)),
     LogicalOperator("or", Literal(age), AgeOver),
     LogicalOperator("and", AgeUnder, Literal(name_id)),
     LogicalOperator("and", AgeOver, NameIs),
     MatchOperator(Literal(name_id), Regex(<<74>>))}

CountTrees ==
    {PushResult("p1", a) : a \in CountExprs}
    \cup {Both(PushResult("p1", a), PushResult("p2", b)) : a, b \in CountExprs}

\* count, names = count_expressions(node)
count_step ==
    /\ probe.pc = "tree"
    /\ \E c \in {count_expressions(probe.tree)} :
          probe' = [probe EXCEPT !.counts = c, !.pc = "counted"]
    /\ UNCHANGED <<settings, predicates, ast, finalized, member, merge_order, ret,
                   threads, set_results, heap>>

InitCount ==
    /\ SetIdle
    /\ \E t \in CountTrees : probe = [tree |-> t, counts |-> <<>>, pc |-> "tree"]

NextCount == count_step

SpecCount == InitCount /\ [][NextCount]_vars

\* A node that some counting pattern matches
Eligible(n) == \E i \in 1..Len(count_patterns) : matches(count_patterns[i], n)

RECURSIVE EligibleOccurrences(_, _)
\* How often tile comes to an eligible node of the given name
EligibleOccurrences(name, tree) ==
    (IF Eligible(tree) /\ merge_node_name(tree, tree.k = "CompareOperator") = name
     THEN 1 ELSE 0)
    + (IF HasLeft(tree) THEN EligibleOccurrences(name, tree.left) ELSE 0)
    + (IF HasRight(tree) THEN EligibleOccurrences(name, tree.right) ELSE 0)

\* C24: tile invokes the callback at most once per visited node, for the
\* first pattern that matches it, so count_expressions adds exactly 1 to the
\* count of an eligible node's name per occurrence of the node, also for a
\* Logical node whose two operands are both Literals.
C24_CountsOncePerOccurrence ==
    probe.pc = "counted" =>
        \A i \in 1..Len(probe.counts) :
            Len(probe.counts[i].nodes) = EligibleOccurrences(probe.counts[i].name, probe.tree)

-----------------------------------------------------------------------------
(* merge.recursive_refactor (merge.py 179-228) on the trees refactor hands *)
(* it, under settings with small max_depth and min_select                  *)

MaxDepth == 2
MaxSelect == 3

\* Merged predicates after static resolution, canonicalize and the initial
\* optimize (merge.py 139-148)
RefactorInputs ==
    {optimize(canonicalize(static_resolution(t)), 32, 1) :
        t \in CountTrees
              \cup {Both(Both(PushResult("p1", AgeOver), PushResult("p2", a)),
                         PushResult("p3", b)) : a, b \in CountExprs}}

\* recursive_refactor(node, settings)
refactor_step ==
    /\ probe.pc = "tree"
    /\ \E r \in {recursive_refactor(probe.tree, probe.settings, 0)} :
          probe' = [probe EXCEPT !.out = r.ast, !.exc = r.exc, !.pc = "refactored"]
    /\ UNCHANGED <<settings, predicates, ast, finalized, member, merge_order, ret,
                   threads, set_results, heap>>

InitRefactor ==
    /\ SetIdle
    /\ \E t \in RefactorInputs, d \in 0..MaxDepth, m \in 1..MaxSelect :
          probe = [tree |-> t, settings |-> RefactorSettings(d, m, 32, 1, [num |-> 0, den |-> 1]),
                   out |-> NoneNode, exc |-> "", pc |-> "tree"]

NextRefactor == refactor_step

SpecRefactor == InitRefactor /\ [][NextRefactor]_vars

RECURSIVE BranchDepth(_)
\* The largest number of Branch nodes on a path from the root
BranchDepth(n) ==
    LET below == {0}
                 \cup (IF n.k = "Branch" THEN {BranchDepth(n.expr)} ELSE {})
                 \cup (IF HasLeft(n) THEN {BranchDepth(n.left)} ELSE {})
                 \cup (IF HasRight(n) THEN {BranchDepth(n.right)} ELSE {})
        deepest == CHOOSE d \in below : \A e \in below : e <= d
    IN  deepest + (IF n.k = "Branch" THEN 1 ELSE 0)

RECURSIVE PivotsFrequent(_, _, _)
\* Wherever the call recursive_refactor(node, s, depth) and the calls below
\* it build a Branch, the name the pivot was taken from occurs at least
\* min_select times in the subtree of that call
PivotsFrequent(node, s, depth) ==
    IF depth = s.max_depth THEN TRUE
    ELSE LET pick == SelectLoop(s, max_count(count_expressions(node)), 1)
             left == rewrite_ast(node, pick.name, pick.expr, TRUE)
             right == rewrite_ast(node, pick.name, pick.expr, FALSE)
         IN  IF pick.exc # "" \/ pick.stop THEN TRUE
             ELSE IF left.exc # "" \/ right.exc # "" THEN TRUE
             ELSE /\ EligibleOccurrences(pick.name, node) >= s.min_select
                  /\ PivotsFrequent(optimize(left.ast, s.max_opt_pass, s.min_change), s, depth + 1)
                  /\ PivotsFrequent(optimize(right.ast, s.max_opt_pass, s.min_change), s, depth + 1)

\* No eligible name occurs min_select times
NoCandidate(node, s) ==
    \A i \in 1..Len(count_expressions(node)) :
        EligibleOccurrences(count_expressions(node)[i].name, node) < s.min_select

\* C25: recursive_refactor terminates for every tree and settings, the tree
\* it returns never nests Branch nodes deeper than settings.max_depth, and a
\* Branch is created only for a pivot taken from a candidate name whose
\* occurrence count in the current subtree is at least settings.min_select
\* (a subtree with no such candidate is returned unchanged).
C25_RefactorBoundedAndSelective ==
    probe.pc = "refactored" /\ probe.exc = "" =>
        /\ BranchDepth(probe.out) <= probe.settings.max_depth
        /\ PivotsFrequent(probe.tree, probe.settings, 0)
        /\ NoCandidate(probe.tree, probe.settings) => probe.out = probe.tree

-----------------------------------------------------------------------------
(* merge.rewrite_ast with a bare Literal pivot (merge.py 275-280): the     *)
(* pivot comes from "not L" or from a Logical node with operand L, as      *)
(* select_rewrite_expression picks it (merge.py 249-258)                   *)

\* Where the pivot age is taken from
PivotSources ==
    {NegateOperator(Literal(age)), AgeAndName,
     LogicalOperator("or", Literal(age), NameIs),
     LogicalOperator("and", NameIs, Literal(age))}

\* Other predicates, most of them with age as an operand
PivotSiblings ==
    {AgeOver, AgeUnder, AgeIn, NameIs,
     CompareOperator("=", Literal(age), Literal(name_id)),
     CompareOperator("!=", Literal(age), Number(0)),
     MatchOperator(Literal(age), Regex(<<74>>)),
     NegateOperator(Literal(age)),
     LogicalOperator("or", Literal(name_id), Literal(age))}

\* {}, {age: 45, name: J}, {age: 70, name: ""}, {age: 0}, {age: "J"}
PivotDocs ==
    ("zero" :> (age :> Num(0))) @@ ("text" :> (age :> Str(<<74>>))) @@ Docs

\* expr = select_rewrite_expression(settings, name, names[name]);
\* rewrite_ast(node, name, expr, assumed_result)
pivot_rewrite_step ==
    /\ probe.pc = "tree"
    /\ \E name \in {merge_node_name(probe.tree.left.left, FALSE)} :
       \E sel \in {select_rewrite_expression(Eager, name, <<probe.tree.left.left>>)} :
       \E w \in {rewrite_ast(probe.tree, name, sel.expr, probe.assumed)} :
          /\ sel.exc = "" /\ w.exc = ""
          /\ probe' = [probe EXCEPT !.pivot = sel.expr, !.out = w.ast, !.pc = "rewritten"]
    /\ UNCHANGED <<settings, predicates, ast, finalized, member, merge_order, ret,
                   threads, set_results, heap>>

\* The pivot, the tree and the rewritten tree on one document
pivot_evaluate ==
    /\ probe.pc = "rewritten"
    /\ \E d \in DOMAIN PivotDocs :
       \E p \in {NodeEvaluate(probe.pivot, PivotDocs[d], NewSink)} :
       \E b \in {NodeEvaluate(probe.tree, PivotDocs[d], NewSink)} :
       \E a \in {NodeEvaluate(probe.out, PivotDocs[d], NewSink)} :
          probe' = [probe EXCEPT !.doc = d, !.pivot_res = p.res,
                                 !.before = [preds |-> b.ctx.results.preds, exc |-> b.ctx.exc],
                                 !.after = [preds |-> a.ctx.results.preds, exc |-> a.ctx.exc],
                                 !.pc = "evaluated"]
    /\ UNCHANGED <<settings, predicates, ast, finalized, member, merge_order, ret,
                   threads, set_results, heap>>

InitPivot ==
    /\ SetIdle
    /\ \E s \in PivotSources, b \in PivotSiblings, a \in BOOLEAN :
          probe = [tree |-> Both(PushResult("p1", s), PushResult("p2", b)), assumed |-> a,
                   pivot |-> NoneNode, out |-> NoneNode, doc |-> "", pivot_res |-> FALSE,
                   before |-> NoneV, after |-> NoneV, pc |-> "tree"]

NextPivot == pivot_rewrite_step \/ pivot_evaluate

SpecPivot == InitPivot /\ [][NextPivot]_vars

\* C26: branch expansion on a bare literal pivot is sound: for a Literal L
\* taken from "not L" or from a Logical node with operand L, the tree that
\* rewrite_ast returns under the assumed result A yields, on every document
\* in which the truthiness of L is A, the same matches as the tree before,
\* also for predicates that use L as an operand of a comparison, a contains
\* or a matches expression.
C26_LiteralPivotRewriteSound ==
    (probe.pc = "evaluated" /\ probe.pivot_res = probe.assumed) =>
        probe.after = probe.before

-----------------------------------------------------------------------------
(* compare.equality_rewrite (compare.py 105-148) and recursive_refactor    *)
(* for a pivot whose right side is a Number or a Constant                  *)

NumericRights == {Number(n) : n \in 1..MaxNum} \cup {ConstTrue, ConstFalse}

\* The tree of the two predicates "age <op> n" and "age <op'> m"
NumericTree ==
    Both(PushResult("p1", probe.pivot), PushResult("p2", probe.sibling))

\* equality_rewrite(sibling, name, pivot, True)
numeric_rewrite_step ==
    /\ probe.pc = "in"
    /\ \E w \in {equality_rewrite(probe.sibling, merge_node_name(probe.pivot, TRUE),
                                  probe.pivot, TRUE)} :
          probe' = [probe EXCEPT !.out = w.ast, !.exc = w.exc, !.pc = "rewritten"]
    /\ UNCHANGED <<settings, predicates, ast, finalized, member, merge_order, ret,
                   threads, set_results, heap>>

\* recursive_refactor of the two predicates, branching on any name seen twice
numeric_refactor_step ==
    /\ probe.pc = "rewritten"
    /\ \E r \in {recursive_refactor(NumericTree, Eager, 0)} :
          probe' = [probe EXCEPT !.refactor_exc = r.exc, !.pc = "refactored"]
    /\ UNCHANGED <<settings, predicates, ast, finalized, member, merge_order, ret,
                   threads, set_results, heap>>

InitNumeric ==
    /\ SetIdle
    /\ \E n, m \in NumericRights, o \in EQUALITY, t \in {"=", "is", "!="} :
          probe = [pivot |-> CompareOperator(o, Literal(age), n),
                   sibling |-> CompareOperator(t, Literal(age), m),
                   out |-> NoneNode, exc |-> "", refactor_exc |-> "", pc |-> "in"]

NextNumeric == numeric_rewrite_step \/ numeric_refactor_step

SpecNumeric == InitNumeric /\ [][NextNumeric]_vars

\* C27: numeric constants are static values for the equality rewrite: for a
\* pivot L = n with n a Number (or a Constant) and the assumed result true,
\* equality_rewrite and recursive_refactor complete without error, and a
\* sibling L = m is rewritten to Constant(n == m), a sibling L != m to
\* Constant(n != m).
C27_NumericEqualityRewrite ==
    probe.pc \in {"rewritten", "refactored"} =>
        /\ probe.exc = ""
        /\ probe.refactor_exc = ""
        /\ probe.out = Constant(Bool(IF probe.sibling.type \in EQUALITY
                                     THEN PyEq(probe.pivot.right.value, probe.sibling.right.value)
                                     ELSE PyNe(probe.pivot.right.value, probe.sibling.right.value)))

-----------------------------------------------------------------------------
(* optimizer.optimize (optimizer.py 13-110) against evaluation: every      *)
(* peephole pattern on trees of merged predicates                          *)

EmptySet == LiteralSet({})

\* Expressions that the patterns p1 .. p6, p10 and p12 .. p14 rewrite
PeepholeExprs ==
    {CompareOperator(op, Literal(age), EmptySet) : op \in {"=", "!=", "<"}}
    \cup {CompareOperator("=", EmptySet, Literal(age)),
          ContainsOperator(EmptySet, Literal(age)),
          ContainsOperator(EmptyNode, Literal(age)),
          ContainsOperator(UndefinedNode, Literal(age))}
    \cup {LogicalOperator(op, c, x) : op \in {"and", "or"}, c \in {ConstTrue, ConstFalse},
                                      x \in {AgeOver, Literal(age)}}
    \cup {LogicalOperator(op, x, c) : op \in {"and", "or"}, c \in {ConstTrue, ConstFalse},
                                      x \in {AgeOver, Literal(age)}}
    \cup {NegateOperator(x) : x \in {ConstTrue, ConstFalse, AgeOver}}

PeepholeChildren(p) ==
    {NoneNode, ConstFalse, PushResult(p, ConstFalse), PushResult(p, ConstTrue),
     PushResult(p, AgeOver)}

\* One predicate, two merged predicates (p7 .. p9), a Branch on a constant (p11)
PeepholeMerged ==
    {PushResult("p1", e) : e \in PeepholeExprs}
    \cup {Both(l, r) : l \in PeepholeChildren("p1") \ {NoneNode},
                       r \in PeepholeChildren("p2") \ {NoneNode}}
    \cup {Both(PushResult("p1", e), PushResult("p2", AgeOver)) : e \in PeepholeExprs}
    \cup {Branch(c, l, r) : c \in {ConstTrue, ConstFalse},
                            l \in PeepholeChildren("p1"), r \in PeepholeChildren("p2")}

\* As parsed, and as static_resolution leaves them before the initial optimize
PeepholeTrees == PeepholeMerged \cup {static_resolution(t) : t \in PeepholeMerged}

\* {}, {age: []}, {age: ""}, {age: 45}, {age: set()}
PeepholeDocs ==
    ("list" :> (age :> List(<<>>))) @@ ("text" :> (age :> Str(<<>>)))
    @@ ("set" :> (age :> SetV({}))) @@ ("d0" :> <<>>) @@ ("d1" :> Docs["d1"])

\* optimize(node, 32, 1)
peephole_optimize ==
    /\ probe.pc = "tree"
    /\ \E o \in {optimize(probe.tree, 32, 1)} :
          probe' = [probe EXCEPT !.out = o, !.pc = "optimized"]
    /\ UNCHANGED <<settings, predicates, ast, finalized, member, merge_order, ret,
                   threads, set_results, heap>>

\* The tree and the optimized tree on one document
peephole_evaluate ==
    /\ probe.pc = "optimized"
    /\ \E d \in DOMAIN PeepholeDocs :
       \E b \in {NodeEvaluate(probe.tree, PeepholeDocs[d], NewSink)} :
       \E a \in {NodeEvaluate(probe.out, PeepholeDocs[d], NewSink)} :
          probe' = [probe EXCEPT !.doc = d,
                                 !.before = [res |-> b.res, preds |-> b.ctx.results.preds,
                                             exc |-> b.ctx.exc],
                                 !.after = [res |-> a.res, preds |-> a.ctx.results.preds,
                                            exc |-> a.ctx.exc],
                                 !.pc = "evaluated"]
    /\ UNCHANGED <<settings, predicates, ast, finalized, member, merge_order, ret,
                   threads, set_results, heap>>

InitPeephole ==
    /\ SetIdle
    /\ \E t \in PeepholeTrees :
          probe = [tree |-> t, out |-> NoneNode, doc |-> "", before |-> NoneV,
                   after |-> NoneV, pc |-> "tree"]

NextPeephole == peephole_optimize \/ peephole_evaluate

SpecPeephole == InitPeephole /\ [][NextPeephole]_vars

\* C28: every peephole rewrite preserves evaluation: for every tree and
\* document optimize(tree) has the truth value of the tree and pushes the
\* same matches; replacing an empty LiteralSet by Empty does not change an
\* enclosing comparison or contains for any operand value, and removing a
\* false side of a Both or a dead Branch drops no PushResult that could fire.
C28_OptimizePreservesEvaluation ==
    probe.pc = "evaluated" => probe.after = probe.before

-----------------------------------------------------------------------------
(* compile_ast and the trees of the member predicates (merge.py 102-123,   *)
(* 170-176; ast.py 431-453), and finalize on a finalized set (set.py       *)
(* 158-180), in the specification Spec of the set's operations             *)

\* C29: compiling the set changes nothing reachable from a member
\* predicate's own AST: after compile_ast every member predicate's AST has
\* the structure, operators, operand order and literal state (static flag
\* and static value) it had before, and Predicate.evaluate on it gives the
\* result it gave before for every document.
C29_CompileLeavesMemberASTs ==
    [][(ret'.op = "compile_ast" /\ ret'.exc = "")
          => \A q \in predicates.s :
                /\ member'[q].ast = member[q].ast
                /\ \A d \in DOMAIN Docs :
                      /\ PredicateEvaluate(member'[q], Docs[d]).res
                            = PredicateEvaluate(member[q], Docs[d]).res
                      /\ PredicateEvaluate(member'[q], Docs[d]).ctx.exc
                            = PredicateEvaluate(member[q], Docs[d]).ctx.exc
    ]_vars

\* C30: finalize is idempotent: finalize() on a set that is already
\* finalized raises no error and leaves the compiled AST, the finalized flag
\* and what later evaluate calls return unchanged.
C30_FinalizeIdempotent ==
    [][(finalized /\ ret'.op = "finalize")
          => /\ ret'.exc = ""
             /\ UNCHANGED <<ast, finalized, merge_order>>
    ]_vars

=============================================================================
